---- MODULE Spec2Model ----
(***************************************************************************)
(* A model of the static-site build pipeline of albertbf (build.js).       *)
(*                                                                         *)
(* Strings are sequences of one-character strings, so that split, join,    *)
(* basename and the URL templates are computed, not assumed.  Time is a    *)
(* count of ticks since the epoch (UTC); a day has DayTicks ticks and a    *)
(* year DaysPerYear days.  The local time zone is tz ticks ahead of UTC.   *)
(***************************************************************************)
EXTENDS Integers, Sequences, FiniteSets, TLC

VARIABLES
    markdownFiles,              \* build(): the list findMarkdownFiles returned
    imagesDir,                  \* the global image directory, as build() finds it
    tz,                         \* the time zone of the machine that builds
    clock,                      \* Date.now()
    pc,                         \* where build() stands
    task,                       \* state of each callback of markdownFiles.map
    results,                    \* what each callback returned (Promise.all's slots)
    currentArticleLanguages,    \* the module-level accumulator, build.js:17
    currentArticleForRenderer,  \* the module-level "article in flight", build.js:18
    articles,                   \* the array build() passes to every generator
    idx,                        \* the position of the article-page loop
    dist,                       \* the output tree
    exitCode,                   \* the argument of process.exit, or the normal 0
    log,                        \* what console.error reported
    arg,                        \* input of the pure function under study
    ret                         \* its result

vars == <<markdownFiles, imagesDir, tz, clock, pc, task, results, currentArticleLanguages,
          currentArticleForRenderer, articles, idx, dist, exitCode, log, arg, ret>>

buildVars == <<markdownFiles, imagesDir, tz, clock, pc, task, results, currentArticleLanguages,
               currentArticleForRenderer, articles, idx, dist, exitCode, log>>

-----------------------------------------------------------------------------
(* Bounds of the model *)

MaxFiles == 3          \* length of the discovered file list
MaxTicks == 1          \* how far the clock may advance while files are parsed
DayTicks == 2          \* ticks in a calendar day
DaysPerYear == 2       \* days in a calendar year
MaxBodyLen == 4        \* length of the bodies enumerated character by character
MaxSegments == 3       \* directories between the content root and a file
BuildDay == 2          \* the calendar day (UTC) on which the build starts

(* Program constants *)

WordsPerMinute == 200  \* the divisor of the read time

-----------------------------------------------------------------------------
(* Values *)

Null == <<"null">>             \* JavaScript's null; no string of characters equals it
Undefined == <<"undefined">>   \* JavaScript's undefined

(* the truthiness of a string, of a function, of null and of undefined *)
Truthy(value) == value \notin {Undefined, Null, <<>>}

SeqToSet(s) == {s[i] : i \in 1..Len(s)}

(* the strings the model needs *)
Slash == "/"
sArticles == <<"a", "r", "t", "i", "c", "l", "e", "s">>
sProjects == <<"p", "r", "o", "j", "e", "c", "t", "s">>
sDotMd == <<".", "m", "d">>

-----------------------------------------------------------------------------
(* Strings and paths *)

RECURSIVE JoinWith(_, _)
(* Array.prototype.join(sep) over an array of strings *)
JoinWith(parts, sep) ==
    IF Len(parts) = 0 THEN <<>>
    ELSE IF Len(parts) = 1 THEN parts[1]
    ELSE parts[1] \o <<sep>> \o JoinWith(Tail(parts), sep)

RECURSIVE SplitAt(_, _, _)
(* String.prototype.split(sep): cur is the part being read *)
SplitAt(s, sep, cur) ==
    IF Len(s) = 0 THEN <<cur>>
    ELSE IF Head(s) = sep THEN <<cur>> \o SplitAt(Tail(s), sep, <<>>)
    ELSE SplitAt(Tail(s), sep, Append(cur, Head(s)))

Split(s, sep) == SplitAt(s, sep, <<>>)

(* Array.prototype.includes *)
Includes(parts, x) == \E i \in 1..Len(parts) : parts[i] = x

(* Array.prototype.indexOf, 1-based; 0 when absent *)
IndexOf(parts, x) ==
    IF Includes(parts, x)
    THEN CHOOSE i \in 1..Len(parts) :
            /\ parts[i] = x
            /\ \A j \in 1..(i - 1) : parts[j] # x
    ELSE 0

(* String.prototype.startsWith *)
StartsWith(s, prefix) ==
    /\ Len(s) >= Len(prefix)
    /\ SubSeq(s, 1, Len(prefix)) = prefix

(* String.prototype.endsWith *)
EndsWith(s, suffix) ==
    /\ Len(s) >= Len(suffix)
    /\ SubSeq(s, Len(s) - Len(suffix) + 1, Len(s)) = suffix

(* path.basename(p): the part after the last separator *)
LastSegment(p) == LET parts == Split(p, Slash) IN parts[Len(parts)]

(* path.basename(p, ext): the extension is removed only when something is
   left of the name; basename('.md', '.md') is '.md' *)
Basename(p, ext) ==
    LET name == LastSegment(p)
    IN IF EndsWith(name, ext) /\ Len(name) > Len(ext)
       THEN SubSeq(name, 1, Len(name) - Len(ext))
       ELSE name

(* path.dirname(p) of a path with at least one separator *)
Dirname(p) ==
    LET parts == Split(p, Slash)
    IN JoinWith(SubSeq(parts, 1, Len(parts) - 1), Slash)

-----------------------------------------------------------------------------
(* Dates *)

(* the calendar day, in the local zone z, of the instant t *)
LocalDay(t, z) == (t + z) \div DayTicks

(* Date.prototype.getFullYear: the local year *)
GetFullYear(t, z) == LocalDay(t, z) \div DaysPerYear

(* Date.prototype.setHours(0, 0, 0, 0): local midnight of the day of t *)
StartOfDay(t, z) == LocalDay(t, z) * DayTicks - z

(* Date.prototype.toISOString: the day and the time of day in UTC, whatever
   the local zone *)
ToISOString(t) ==
    <<ToString(t \div DayTicks), "T", ToString(t % DayTicks), "Z">>

(* the time value of an Invalid Date; every instant is at least zero *)
NaN == -1

(* the year as it is interpolated into a template string *)
YearString(y) == <<ToString(y)>>

(* this.date.getFullYear() in the template string of build.js:116-117:
   the year of an Invalid Date is NaN *)
UrlYear(date, z) ==
    IF date = NaN THEN <<"NaN">> ELSE YearString(GetFullYear(date, z))

(* frontmatter.date || Date.now(), then new Date(...):
   a DD-MM-YYYY literal is midnight of that day in the local zone, an ISO
   date is midnight UTC, no date is the instant of construction, and a
   string that is no date gives an Invalid Date, without an exception *)
ParseDate(dateInput, now, z) ==
    IF dateInput.kind = "euro" THEN dateInput.day * DayTicks - z
    ELSE IF dateInput.kind = "iso" THEN dateInput.day * DayTicks
    ELSE IF dateInput.kind = "invalid" THEN NaN
    ELSE now

-----------------------------------------------------------------------------
(* The Article model, build.js:89-123 *)

(* the characters the class \s of a regular expression matches *)
Whitespace == {" ", "\n", "\t"}

(* content.split(/\s+/).filter(Boolean): one token per maximal run of
   characters that are not whitespace; the places where the tokens start *)
WordStarts(content) ==
    {k \in 1..Len(content) :
        /\ content[k] \notin Whitespace
        /\ (k = 1 \/ content[k - 1] \in Whitespace)}

(* ... .length *)
WordCount(content) == Cardinality(WordStarts(content))

(* Math.ceil(n / d) for n >= 0, d > 0 *)
Ceil(n, d) == (n + d - 1) \div d

ReadTime(content) == Ceil(WordCount(content), WordsPerMinute)

IsProject(filePath) == Includes(Split(filePath, Slash), sProjects)

ProjectNameFromParent(filePath) ==
    LET pathParts == Split(filePath, Slash)
    IN IF IsProject(filePath) THEN pathParts[Len(pathParts) - 1] ELSE Null
(* build.js:108-110 *)
ProjectName(filePath) ==
    LET pathParts == Split(filePath, Slash)
        next == IndexOf(pathParts, sProjects) + 1
    IN IF IsProject(filePath)
       THEN (IF next <= Len(pathParts) THEN pathParts[next] ELSE Undefined)
       ELSE Null

ArticleUrl(filePath, date, z) ==
    LET fileName == Basename(filePath, sDotMd)
    IN IF IsProject(filePath)
       THEN <<Slash>> \o sArticles \o <<Slash>> \o sProjects \o <<Slash>>
            \o ProjectName(filePath) \o <<Slash>> \o fileName
       ELSE <<Slash>> \o sArticles \o <<Slash>>
            \o UrlYear(date, z) \o <<Slash>> \o fileName

-----------------------------------------------------------------------------
(* Source files.  A source file is what readFile and the two libraries     *)
(* hand to build.js: whether frontmatterRegex matches (head), what         *)
(* yaml.load does with the metadata block (yaml), the date key of the      *)
(* mapping, the body text, the code and image tokens marked finds in the   *)
(* body, and the targets imageRegex matches in it.                         *)

SUPPORTED_LANGUAGES == {"go", "javascript"}

Path(segments) == JoinWith(segments, Slash)

NoDate == [kind |-> "none", day |-> 0]
Iso(d) == [kind |-> "iso", day |-> d]
Euro(d) == [kind |-> "euro", day |-> d]

Code(lang) == [type |-> "code", lang |-> lang]

sDemo == <<"d", "e", "m", "o">>
sLib == <<"l", "i", "b">>
sYear == <<"y">>
sPic == <<"p", ".", "p", "n", "g">>

sUntitled == <<"U", "n", "t", "i", "t", "l", "e", "d">>

(* a key of the metadata block: absent, or present with a value *)
Absent == <<>>
Present(value) == <<value>>

(* the keys title, description and tags of the metadata block *)
Meta(title, description, tags) ==
    [title |-> title, description |-> description, tags |-> tags]

NoMeta == Meta(Absent, Absent, Absent)

(* frontmatter.key || default: an absent key reads as undefined, and
   undefined and the empty string are falsy *)
KeyOr(key, default) ==
    IF key # Absent /\ Len(key[1]) > 0 THEN key[1] ELSE default

Source(segments, head, yaml, date, content, tokens, images) ==
    [path |-> Path(<<sArticles>> \o segments), head |-> head, yaml |-> yaml,
     date |-> date, content |-> content, tokens |-> tokens, images |-> images,
     meta |-> NoMeta]

(* the same file with the keys meta in its metadata block *)
WithMeta(file, meta) == [file EXCEPT !.meta = meta]

SourceFiles ==
    { WithMeta(Source(<<sYear, <<"a">> \o sDotMd>>, "fm", "map", Iso(BuildDay),
                      <<"w", " ", "w">>, <<Code("go")>>, <<>>),
               Meta(Present(<<"T">>), Present(<<"D">>),
                    Present(<<<<"x">>, <<"y">>>>))),
      Source(<<sYear, <<"b">> \o sDotMd>>, "fm", "map", NoDate,
             <<>>, <<>>, <<>>),
      WithMeta(Source(<<sProjects, sDemo, <<"c">> \o sDotMd>>, "fm", "map",
                      Euro(BuildDay), <<"w">>,
                      <<Code("javascript"), Code("zz")>>, <<sPic>>),
               Meta(Present(<<"T">>), Absent, Present(<<<<"x">>>>))),
      Source(<<sProjects, sDemo, <<"d">> \o sDotMd>>, "fm", "map", Iso(BuildDay + 2),
             <<"w", "\n">>, <<Code("")>>, <<>>),
      Source(<<sProjects, sLib, <<"e">> \o sDotMd>>, "fm", "map", Iso(BuildDay - 1),
             <<" ">>, <<>>, <<>>),
      Source(<<sYear, <<"g">> \o sDotMd>>, "none", "map", NoDate,
             <<"w">>, <<>>, <<>>),
      Source(<<sYear, <<"h">> \o sDotMd>>, "fm", "malformed", NoDate,
             <<"w">>, <<Code("go")>>, <<>>) }

(* the lists findMarkdownFiles can return: distinct files, any order *)
FileLists ==
    UNION { { s \in [1..n -> SourceFiles] :
                \A i, j \in 1..n : i # j => s[i] # s[j] } : n \in 0..MaxFiles }

-----------------------------------------------------------------------------
(* parseMarkdownFile, build.js:125-155, and the renderer hooks it drives   *)

FrontmatterAssumed(file) == TRUE
(* content.match(frontmatterRegex), build.js:128-133 *)
FrontmatterFound(file) == file.head = "fm"

(* yaml.load(match[1]) followed by the property reads of the constructor:
   a malformed block throws in yaml.load, an empty block loads as undefined
   and the first property read throws *)
FrontmatterLoads(file) == file.yaml = "map"

(* new Article(markdownContent, frontmatter, filePath), build.js:90-122 *)
NewArticle(file, now, z) ==
    LET date == ParseDate(file.date, now, z)
    IN [content |-> file.content,
        title |-> KeyOr(file.meta.title, sUntitled),
        description |-> KeyOr(file.meta.description, <<>>),
        tags |-> KeyOr(file.meta.tags, <<>>),
        date |-> date,
        filePath |-> file.path,
        languages |-> {},
        images |-> <<>>,
        isProject |-> IsProject(file.path),
        projectName |-> ProjectName(file.path),
        url |-> ArticleUrl(file.path, date, z),
        readTime |-> ReadTime(file.content)]

(* the while loop over imageRegex, build.js:140-144 *)
WithImages(article, file) == [article EXCEPT !.images = file.images]

ClearedWithoutReset(acc) == acc
(* currentArticleLanguages.clear(), build.js:146 *)
ClearLanguages(acc) == {}

(* renderer.code, build.js:22-26: what it does to the accumulator *)
RendererCode(acc, token) ==
    IF token.lang # "" /\ token.lang \in SUPPORTED_LANGUAGES
    THEN acc \cup {token.lang}
    ELSE acc

RECURSIVE MarkedParse(_, _)
(* marked.parse(article.content): the renderer is called once per code token *)
MarkedParse(acc, tokens) ==
    IF Len(tokens) = 0 THEN acc
    ELSE MarkedParse(IF Head(tokens).type = "code"
                     THEN RendererCode(acc, Head(tokens))
                     ELSE acc,
                     Tail(tokens))

(* article.languages = new Set(currentArticleLanguages), build.js:152 *)
WithLanguages(article, acc) == [article EXCEPT !.languages = acc]

YieldsAtEveryStep(taskPc) == TRUE
(* the points at which a callback has given the thread back: it awaits
   readFile (build.js:126) and nothing else until it returns *)
Yields(taskPc) == taskPc \in {"reading", "done"}

-----------------------------------------------------------------------------
(* The generators, build.js:192-364 *)

(* the source file an article was built from *)
SourceOf(article) ==
    CHOOSE f \in SeqToSet(markdownFiles) : f.path = article.filePath

CompareAscending(a, b) == a.date - b.date
(* the comparator of generateIndexHTML, build.js:230 *)
IndexCompare(a, b) ==
    IF a.date = NaN \/ b.date = NaN THEN 0 ELSE b.date - a.date

(* the comparator of generateProjectsHTML, build.js:302 *)
GroupCompare(a, b) ==
    IF a.date = NaN \/ b.date = NaN THEN 0 ELSE b.date - a.date

(* Array.prototype.sort is stable: a is placed behind every element that
   the comparator does not put after it *)
InsertIndex(sorted, a) ==
    LET k == Cardinality({i \in 1..Len(sorted) : IndexCompare(sorted[i], a) <= 0})
    IN SubSeq(sorted, 1, k) \o <<a>> \o SubSeq(sorted, k + 1, Len(sorted))

RECURSIVE SortIndex(_, _)
SortIndex(arr, n) ==
    IF n = 0 THEN <<>> ELSE InsertIndex(SortIndex(arr, n - 1), arr[n])

InsertGroup(sorted, a) ==
    LET k == Cardinality({i \in 1..Len(sorted) : GroupCompare(sorted[i], a) <= 0})
    IN SubSeq(sorted, 1, k) \o <<a>> \o SubSeq(sorted, k + 1, Len(sorted))

RECURSIVE SortGroup(_, _)
SortGroup(arr, n) ==
    IF n = 0 THEN <<>> ELSE InsertGroup(SortGroup(arr, n - 1), arr[n])

(* articles.sort(...) of generateIndexHTML: the array it is given, sorted *)
SortedArticles(arr) == SortIndex(arr, Len(arr))

(* the cards of the index page, build.js:232-278: one per element *)
IndexCards(sortedArticles) == sortedArticles

RECURSIVE MapKeys(_, _)
(* the keys of projectsMap in insertion order, build.js:294-299 *)
MapKeys(projectArticles, seen) ==
    IF Len(projectArticles) = 0 THEN <<>>
    ELSE LET name == Head(projectArticles).projectName
         IN IF name \in seen
            THEN MapKeys(Tail(projectArticles), seen)
            ELSE <<name>> \o MapKeys(Tail(projectArticles), seen \cup {name})

(* generateProjectsHTML, build.js:290-330: the sections of the page *)
ProjectSections(arr) ==
    LET IsProj(a) == a.isProject
        projectArticles == SelectSeq(arr, IsProj)
        keys == MapKeys(projectArticles, {})
    IN [k \in 1..Len(keys) |->
          LET InGroup(a) == a.projectName = keys[k]
              members == SelectSeq(projectArticles, InGroup)
          IN [projectName |-> keys[k],
              articles |-> SortGroup(members, Len(members))]]

(* The content excerpt of a search record, build.js:360 *)

ExcerptLength == 300   \* the argument of substring

(* the backtick, U+0060, which a string of this language cannot hold *)
Backtick == "U+0060"
sFence == <<Backtick, Backtick, Backtick>>
sBang == <<"!", "[">>
sMid == <<"]", "(">>

(* the least element of a non-empty set of numbers *)
Least(S) == CHOOSE x \in S : \A y \in S : x <= y

(* the first place at or after from where the text t stands in s, when
   there is one before a line ends if sameLine; 0 when there is none *)
Find(s, t, from, sameLine) ==
    LET Here(j) == /\ j + Len(t) - 1 <= Len(s)
                   /\ SubSeq(s, j, j + Len(t) - 1) = t
                   /\ sameLine => \A k \in from..(j - 1) : s[k] # "\n"
        found == {j \in from..Len(s) : Here(j)}
    IN IF found = {} THEN 0 ELSE Least(found)

(* the length of the match of the fence pattern (three backticks, then
   [\s\S]*?, then three backticks) at the start of s, or 0 *)
FenceMatch(s) ==
    IF ~StartsWith(s, sFence) THEN 0
    ELSE LET close == Find(s, sFence, Len(sFence) + 1, FALSE)
         IN IF close = 0 THEN 0 ELSE close + Len(sFence) - 1

(* the length of the match of /!\[.*?\]\(.*?\)/ at the start of s, or 0:
   the dot does not match a line end *)
ImageMatch(s) ==
    IF ~StartsWith(s, sBang) THEN 0
    ELSE LET mids == {j \in 3..Len(s) :
                        /\ Find(s, sMid, j, TRUE) = j
                        /\ \A k \in 3..(j - 1) : s[k] # "\n"
                        /\ Find(s, <<")">>, j + 2, TRUE) # 0}
         IN IF mids = {} THEN 0
            ELSE Find(s, <<")">>, Least(mids) + 2, TRUE)

(* the length of the match of /<[^>]*>/ at the start of s, or 0 *)
TagMatch(s) ==
    IF Len(s) = 0 \/ Head(s) # "<" THEN 0 ELSE Find(s, <<">">>, 2, FALSE)

(* String.prototype.replace with a global pattern and '': the leftmost
   match goes, and the search goes on behind it *)
RECURSIVE RemoveFences(_)
(* the first replace of the chain: every match of the fence pattern goes *)
RemoveFences(s) ==
    LET starts == {i \in 1..Len(s) : FenceMatch(SubSeq(s, i, Len(s))) > 0}
    IN IF starts = {} THEN s
       ELSE LET i == Least(starts)
                n == FenceMatch(SubSeq(s, i, Len(s)))
            IN SubSeq(s, 1, i - 1) \o RemoveFences(SubSeq(s, i + n, Len(s)))

RECURSIVE RemoveImages(_)
(* .replace(/!\[.*?\]\(.*?\)/g, '') *)
RemoveImages(s) ==
    LET starts == {i \in 1..Len(s) : ImageMatch(SubSeq(s, i, Len(s))) > 0}
    IN IF starts = {} THEN s
       ELSE LET i == Least(starts)
                n == ImageMatch(SubSeq(s, i, Len(s)))
            IN SubSeq(s, 1, i - 1) \o RemoveImages(SubSeq(s, i + n, Len(s)))

RECURSIVE RemoveTags(_)
(* .replace(/<[^>]*>/g, '') *)
RemoveTags(s) ==
    LET starts == {i \in 1..Len(s) : TagMatch(SubSeq(s, i, Len(s))) > 0}
    IN IF starts = {} THEN s
       ELSE LET i == Least(starts)
                n == TagMatch(SubSeq(s, i, Len(s)))
            IN SubSeq(s, 1, i - 1) \o RemoveTags(SubSeq(s, i + n, Len(s)))

(* .replace(/\s+/g, ' '): of every run of whitespace the first character
   stays, as a blank *)
CollapseWhitespace(s) ==
    LET marked == [k \in 1..Len(s) |->
                     [c |-> IF s[k] \in Whitespace THEN " " ELSE s[k],
                      drop |-> /\ s[k] \in Whitespace
                               /\ k > 1
                               /\ s[k - 1] \in Whitespace]]
        Kept(m) == ~m.drop
        kept == SelectSeq(marked, Kept)
    IN [k \in 1..Len(kept) |-> kept[k].c]

(* String.prototype.trim *)
Trim(s) ==
    LET inner == {k \in 1..Len(s) : s[k] \notin Whitespace}
    IN IF inner = {} THEN <<>>
       ELSE SubSeq(s, CHOOSE k \in inner : \A j \in inner : k <= j,
                      CHOOSE k \in inner : \A j \in inner : k >= j)

(* String.prototype.substring(0, n) *)
Substring(s, n) == IF Len(s) > n THEN SubSeq(s, 1, n) ELSE s

Excerpt(content) ==
    Substring(Trim(CollapseWhitespace(RemoveTags(RemoveImages(
        RemoveFences(content))))), ExcerptLength)

(* generateSearchIndex, build.js:352-364: one record per element, in order *)
SearchRecord(article) ==
    [title |-> article.title,
     description |-> article.description,
     url |-> article.url,
     date |-> ToISOString(article.date),
     readTime |-> article.readTime,
     projectName |-> article.projectName,
     content |-> Excerpt(article.content),
     languages |-> article.languages,
     tags |-> article.tags]

GenerateSearchIndex(arr) == [k \in 1..Len(arr) |-> SearchRecord(arr[k])]

(* join(DIST_DIR, article.url.substring(1), 'index.html') without DIST_DIR *)
OutputPath(article) ==
    SubSeq(article.url, 2, Len(article.url)) \o <<Slash>> \o <<"index.html">>

(* join(dirname(outputPath), basename(imagePath)), build.js:408 *)
DestImagePath(article, imagePath) ==
    Dirname(OutputPath(article)) \o <<Slash>> \o LastSegment(imagePath)

-----------------------------------------------------------------------------
(* build(), build.js:370-452 *)

N == Len(markdownFiles)

EmptyDist ==
    [pages |-> {}, assets |-> {}, written |-> {},
     index |-> <<>>, projects |-> <<>>, search |-> <<>>]

Init ==
    /\ markdownFiles \in FileLists
    /\ imagesDir = "unvisited"
    /\ tz \in {-1, 0, 1}
    /\ clock \in (BuildDay * DayTicks)..(BuildDay * DayTicks + DayTicks - 1)
    /\ pc = "start"
    /\ task = [i \in 1..Len(markdownFiles) |-> "pending"]
    /\ results = [i \in 1..Len(markdownFiles) |-> Undefined]
    /\ currentArticleLanguages = {}
    /\ currentArticleForRenderer = Null
    /\ articles = <<>>
    /\ idx = 0
    /\ dist = EmptyDist
    /\ exitCode = -1
    /\ log = {}
    /\ arg = Null
    /\ ret = Null

(* process.exit(1), from either catch block *)
Exit1 ==
    /\ pc' = "exited"
    /\ exitCode' = 1

(* build.js:374-381: the output root, the stylesheet, the templates and the
   file list; then map starts every callback, and each runs up to its
   await of readFile *)
Setup ==
    /\ pc = "start"
    /\ \E ok \in BOOLEAN :
         IF ok
         THEN /\ pc' = "scan"
              /\ task' = [i \in 1..N |-> "reading"]
              /\ UNCHANGED <<exitCode, log>>
         ELSE /\ Exit1
              /\ log' = log \cup {<<"build", <<>>>>}
              /\ UNCHANGED task
    /\ UNCHANGED <<markdownFiles, imagesDir, tz, clock, results, currentArticleLanguages,
                   currentArticleForRenderer, articles, idx, dist, arg, ret>>

(* the latest instant the model lets the clock reach *)
LastInstant == BuildDay * DayTicks + DayTicks - 1 + MaxTicks

(* a callback runs only while no other callback holds the thread *)
MayRun(i) ==
    /\ pc = "scan"
    /\ i \in 1..N
    /\ \A j \in (1..N) \ {i} : Yields(task[j])

(* build.js:126-133, 135, 389-391: readFile rejects, the regex does not
   match, or the metadata does not load: the callback's catch exits *)
ParseFails(i) ==
    /\ MayRun(i)
    /\ task[i] = "reading"
    /\ \E readOk \in BOOLEAN :
         ~(readOk /\ FrontmatterFound(markdownFiles[i])
                  /\ FrontmatterLoads(markdownFiles[i]))
    /\ Exit1
    /\ task' = [task EXCEPT ![i] = "failed"]
    /\ log' = log \cup {<<"parse", markdownFiles[i].path>>}
    /\ UNCHANGED <<markdownFiles, imagesDir, tz, clock, results, currentArticleLanguages,
                   currentArticleForRenderer, articles, idx, dist, arg, ret>>

(* build.js:126-144: the file has been read; it is split and loaded, the
   Article is constructed and its image targets are collected.  Time has
   passed since the clock was last read; the step that reads it (Date.now()
   of a file without a date) is the one that sees how much *)
Construct(i) ==
    /\ MayRun(i)
    /\ task[i] = "reading"
    /\ FrontmatterFound(markdownFiles[i])
    /\ FrontmatterLoads(markdownFiles[i])
    /\ \E now \in IF markdownFiles[i].date.kind = "none"
                   THEN clock..LastInstant
                   ELSE {clock} :
         /\ clock' = now
         /\ results' = [results EXCEPT ![i] =
                          WithImages(NewArticle(markdownFiles[i], now, tz),
                                     markdownFiles[i])]
    /\ task' = [task EXCEPT ![i] = "constructed"]
    /\ UNCHANGED <<markdownFiles, imagesDir, tz, pc, currentArticleLanguages,
                   currentArticleForRenderer, articles, idx, dist, exitCode, log,
                   arg, ret>>

(* build.js:146 *)
Clear(i) ==
    /\ MayRun(i)
    /\ task[i] = "constructed"
    /\ currentArticleLanguages' = ClearLanguages(currentArticleLanguages)
    /\ task' = [task EXCEPT ![i] = "cleared"]
    /\ UNCHANGED <<markdownFiles, imagesDir, tz, clock, pc, results,
                   currentArticleForRenderer, articles, idx, dist, exitCode, log,
                   arg, ret>>

(* build.js:148-150: marked.parse is synchronous, so the article in flight
   is set and reset within the step *)
Render(i) ==
    /\ MayRun(i)
    /\ task[i] = "cleared"
    /\ currentArticleLanguages' =
         MarkedParse(currentArticleLanguages, markdownFiles[i].tokens)
    /\ currentArticleForRenderer' = Null
    /\ task' = [task EXCEPT ![i] = "rendered"]
    /\ UNCHANGED <<markdownFiles, imagesDir, tz, clock, pc, results, articles, idx, dist,
                   exitCode, log, arg, ret>>

(* build.js:152-154 and 384-388: the accumulator is copied and the article
   returned *)
Copy(i) ==
    /\ MayRun(i)
    /\ task[i] = "rendered"
    /\ results' = [results EXCEPT ![i] =
                     WithLanguages(results[i], currentArticleLanguages)]
    /\ task' = [task EXCEPT ![i] = "done"]
    /\ UNCHANGED <<markdownFiles, imagesDir, tz, clock, pc, currentArticleLanguages,
                   currentArticleForRenderer, articles, idx, dist, exitCode, log,
                   arg, ret>>

(* Promise.all resolves with the results in the order of the file list *)
AllParsed ==
    /\ pc = "scan"
    /\ \A i \in 1..N : task[i] = "done"
    /\ articles' = [i \in 1..N |-> results[i]]
    /\ idx' = 1
    /\ pc' = "pages"
    /\ UNCHANGED <<markdownFiles, imagesDir, tz, clock, task, results,
                   currentArticleLanguages, currentArticleForRenderer, dist,
                   exitCode, log, arg, ret>>

(* build.js:398-415: one turn of the loop over articles.  generateArticleHTML
   renders the body again, which feeds the module-level accumulator; the
   page is written; each image is copied, and a copy that fails is logged *)
ArticlePage ==
    /\ pc = "pages"
    /\ idx <= Len(articles)
    /\ LET article == articles[idx]
       IN /\ currentArticleLanguages' =
               MarkedParse(currentArticleLanguages, SourceOf(article).tokens)
          /\ currentArticleForRenderer' = Null
          /\ \E ok \in BOOLEAN :
               IF ok
               THEN \E copied \in SUBSET (1..Len(article.images)) :
                      /\ dist' = [dist EXCEPT
                           !.pages = {p \in @ : p.path # OutputPath(article)}
                                     \cup {[path |-> OutputPath(article),
                                            of |-> article.filePath]},
                           !.assets = @ \cup {DestImagePath(article, article.images[k]) :
                                                k \in copied}]
                      /\ log' = log \cup {<<"image", article.images[k]>> :
                                            k \in (1..Len(article.images)) \ copied}
                      /\ idx' = idx + 1
                      /\ UNCHANGED <<pc, exitCode>>
               ELSE /\ Exit1
                    /\ log' = log \cup {<<"build", <<>>>>}
                    /\ UNCHANGED <<dist, idx>>
    /\ UNCHANGED <<markdownFiles, imagesDir, tz, clock, task, results, articles, arg, ret>>

PagesDoneEarly ==
    /\ pc = "pages"
    /\ idx >= Len(articles)
    /\ pc' = "index"
    /\ UNCHANGED <<markdownFiles, imagesDir, tz, clock, task, results, currentArticleLanguages,
                   currentArticleForRenderer, articles, idx, dist, exitCode, log,
                   arg, ret>>
(* the loop is over *)
PagesDone ==
    /\ pc = "pages"
    /\ idx > Len(articles)
    /\ pc' = "index"
    /\ UNCHANGED <<markdownFiles, imagesDir, tz, clock, task, results, currentArticleLanguages,
                   currentArticleForRenderer, articles, idx, dist, exitCode, log,
                   arg, ret>>

(* article.date.toISOString() of build.js:268 throws a RangeError for an
   Invalid Date *)
IndexThrows(arr) == \E k \in 1..Len(arr) : arr[k].date = NaN

(* build.js:418-419: generateIndexHTML sorts the array it is given, in
   place, and lists it; then the page is written *)
IndexPage ==
    /\ pc = "index"
    /\ articles' = SortedArticles(articles)
    /\ \E ok \in IF IndexThrows(articles) THEN {FALSE} ELSE BOOLEAN :
         IF ok
         THEN /\ dist' = [dist EXCEPT !.index = IndexCards(articles'),
                                      !.written = @ \cup {"index"}]
              /\ pc' = "projects"
              /\ UNCHANGED <<exitCode, log>>
         ELSE /\ Exit1
              /\ log' = log \cup {<<"build", <<>>>>}
              /\ UNCHANGED dist
    /\ UNCHANGED <<markdownFiles, imagesDir, tz, clock, task, results, currentArticleLanguages,
                   currentArticleForRenderer, idx, arg, ret>>

(* build.js:422-424 *)
ProjectsPage ==
    /\ pc = "projects"
    /\ \E ok \in BOOLEAN :
         IF ok
         THEN /\ dist' = [dist EXCEPT !.projects = ProjectSections(articles),
                                      !.written = @ \cup {"projects"}]
              /\ pc' = "images"
              /\ UNCHANGED <<exitCode, log>>
         ELSE /\ Exit1
              /\ log' = log \cup {<<"build", <<>>>>}
              /\ UNCHANGED dist
    /\ UNCHANGED <<markdownFiles, imagesDir, tz, clock, task, results, currentArticleLanguages,
                   currentArticleForRenderer, articles, idx, arg, ret>>

LogsEveryError(outcome) == TRUE
(* if (err.code !== 'ENOENT'), build.js:433: what the catch reports *)
LogsError(outcome) == outcome \notin {"copied", "ENOENT"}

(* build.js:427-436: the global image directory is there and is copied, is
   absent (cp rejects with ENOENT), or cannot be copied; the build learns
   which only here.  Only the last is reported, none is fatal *)
GeneralImages ==
    /\ pc = "images"
    /\ \E outcome \in {"copied", "ENOENT", "EACCES"} :
         /\ imagesDir' = outcome
         /\ dist' = [dist EXCEPT !.written =
                       IF outcome = "copied" THEN @ \cup {"images"} ELSE @]
         /\ log' = IF LogsError(outcome)
                   THEN log \cup {<<"images", <<>>>>}
                   ELSE log
    /\ pc' = "search"
    /\ UNCHANGED <<markdownFiles, tz, clock, task, results, currentArticleLanguages,
                   currentArticleForRenderer, articles, idx, exitCode, arg, ret>>

(* build.js:439-440 *)
SearchIndex ==
    /\ pc = "search"
    /\ \E ok \in BOOLEAN :
         IF ok
         THEN /\ dist' = [dist EXCEPT !.search = GenerateSearchIndex(articles),
                                      !.written = @ \cup {"search"}]
              /\ pc' = "notfound"
              /\ UNCHANGED <<exitCode, log>>
         ELSE /\ Exit1
              /\ log' = log \cup {<<"build", <<>>>>}
              /\ UNCHANGED dist
    /\ UNCHANGED <<markdownFiles, imagesDir, tz, clock, task, results, currentArticleLanguages,
                   currentArticleForRenderer, articles, idx, arg, ret>>

(* build.js:443-446 *)
NotFoundPage ==
    /\ pc = "notfound"
    /\ \E ok \in BOOLEAN :
         IF ok
         THEN /\ dist' = [dist EXCEPT !.written = @ \cup {"404"}]
              /\ pc' = "success"
              /\ exitCode' = 0
              /\ UNCHANGED log
         ELSE /\ Exit1
              /\ log' = log \cup {<<"build", <<>>>>}
              /\ UNCHANGED dist
    /\ UNCHANGED <<markdownFiles, imagesDir, tz, clock, task, results, currentArticleLanguages,
                   currentArticleForRenderer, articles, idx, arg, ret>>

Next ==
    \/ Setup
    \/ \E i \in 1..N : ParseFails(i)
    \/ \E i \in 1..N : Construct(i)
    \/ \E i \in 1..N : Clear(i)
    \/ \E i \in 1..N : Render(i)
    \/ \E i \in 1..N : Copy(i)
    \/ AllParsed
    \/ ArticlePage
    \/ PagesDone
    \/ IndexPage
    \/ ProjectsPage
    \/ GeneralImages
    \/ SearchIndex
    \/ NotFoundPage

Spec == Init /\ [][Next]_vars

-----------------------------------------------------------------------------
(* What the claims speak of *)

(* the article set as the scanner produced it: the results of the
   callbacks in the order of the discovered file list *)
ScannedSet == [i \in 1..N |-> results[i]]

Scanned == pc \in {"pages", "index", "projects", "images", "search",
                   "notfound", "success"}

(* the calendar day of an article is strictly after the day of the build *)
FutureDated(date) == LocalDay(date, tz) > LocalDay(clock, tz)

(* the articles of the sections of the projects page, section after section *)
RECURSIVE Flatten(_)
Flatten(sections) ==
    IF Len(sections) = 0 THEN <<>>
    ELSE Head(sections).articles \o Flatten(Tail(sections))

(* the position of an article in the scanned set *)
ScanPosition(article) ==
    CHOOSE i \in 1..N : results[i].filePath = article.filePath

(* a file parseMarkdownFile can parse: a leading delimiter pair and a
   metadata block that loads as a mapping *)
WellFormed(file) == file.head = "fm" /\ file.yaml = "map"

(* the languages tagged on the code fences of a file *)
FenceLanguages(file) ==
    {file.tokens[k].lang : k \in {j \in 1..Len(file.tokens) :
                                    file.tokens[j].type = "code"}}

-----------------------------------------------------------------------------
(* C1: no article whose publishDate day is strictly after the day of the
   build appears on the index page, on the projects page or in
   search-index.json. *)
C1_FutureArticlesAbsent ==
    /\ \A k \in 1..Len(dist.index) : ~FutureDated(dist.index[k].date)
    /\ \A k \in 1..Len(Flatten(dist.projects)) :
           ~FutureDated(Flatten(dist.projects)[k].date)
    /\ \A k \in 1..Len(dist.search) :
           \A i \in 1..N :
               dist.search[k].url = results[i].url => ~FutureDated(results[i].date)

(* C2: when a source file fails to parse, the build exits with a non-zero
   code before any output is written, and never reports success with that
   file merely left out: with such a file in the list the build can come
   to rest only after process.exit(1). *)
C2_ParseFailureIsFatal ==
    /\ (\E i \in 1..N : ~WellFormed(markdownFiles[i]))
          => (pc # "success" /\ exitCode # 0 /\ dist = EmptyDist)
    /\ \A i \in 1..N :
          task[i] = "failed" => (pc = "exited" /\ exitCode = 1 /\ dist = EmptyDist)
    /\ ((\E i \in 1..N : ~WellFormed(markdownFiles[i])) /\ ~ENABLED Next)
          => (pc = "exited" /\ exitCode = 1)

(* a malformed file was reached after another file had been parsed in full,
   and the build has exited with code 1 *)
C2_Witness ==
    /\ pc = "exited"
    /\ exitCode = 1
    /\ \E i, j \in 1..N :
          /\ ~WellFormed(markdownFiles[i])
          /\ task[i] = "failed"
          /\ task[j] = "done"

(* C3: whatever the order in which the concurrent parse tasks resume, the
   languages of every parsed article are languages of its own code fences
   only, and none of its own supported languages is missing. *)
C3_LanguagesAreOwn ==
    \A i \in 1..N :
        task[i] = "done" =>
            /\ results[i].languages \subseteq FenceLanguages(markdownFiles[i])
            /\ (FenceLanguages(markdownFiles[i]) \cap SUPPORTED_LANGUAGES)
                   \subseteq results[i].languages

(* two files with different fence languages have both been parsed, the
   second of the list first *)
C3_Witness ==
    /\ pc = "scan"
    /\ N = 2
    /\ task[1] = "done"
    /\ task[2] = "done"
    /\ results[1].languages # {}
    /\ results[2].languages # {}
    /\ results[1].languages # results[2].languages
    /\ currentArticleLanguages = results[1].languages

(* C5: an article is published (listed on the index page) if and only if
   the start of its publishDate day is not strictly after the start of the
   day of the build. *)
C5_PublishedIffNotFuture ==
    "index" \in dist.written =>
        \A i \in 1..N :
            (\E k \in 1..Len(dist.index) :
                 dist.index[k].filePath = results[i].filePath)
            <=> ~(StartOfDay(results[i].date, tz) > StartOfDay(clock, tz))

(* C6: the records of search-index.json are in the order of the scanned
   article set, whatever pages were generated before. *)
C6_SearchIndexInScanOrder ==
    "search" \in dist.written =>
        /\ Len(dist.search) = N
        /\ \A k \in 1..N : dist.search[k].url = results[k].url

(* C7: once scanning has finished, no later step changes the order of the
   article collection or a field of an article. *)
C7_ArticleSetReadOnly == Scanned => articles = ScannedSet

(* C8: the index page lists every published article exactly once, by
   publishDate descending, and articles of equal publishDate in the order
   of the article set. *)
C8_IndexSortedStable ==
    "index" \in dist.written =>
        LET cards == dist.index
        IN /\ \A i \in 1..N :
                 ~FutureDated(results[i].date) =>
                     Cardinality({k \in 1..Len(cards) :
                                    cards[k].filePath = results[i].filePath}) = 1
           /\ \A k, l \in 1..Len(cards) :
                 k < l =>
                     /\ cards[k].date >= cards[l].date
                     /\ cards[k].date = cards[l].date
                           => ScanPosition(cards[k]) < ScanPosition(cards[l])

(* the index lists two articles of equal publishDate, and two that the sort
   had to exchange *)
C8_Witness ==
    /\ "index" \in dist.written
    /\ \E k, l \in 1..Len(dist.index) :
          k < l /\ dist.index[k].date = dist.index[l].date
    /\ \E k, l \in 1..Len(dist.index) :
          k < l /\ ScanPosition(dist.index[k]) > ScanPosition(dist.index[l])

(* C9: the projects page holds exactly the project articles, each in the
   one group of its projectName; the groups stand in the order in which
   their names are first met in the article set, and each group is ordered
   by publishDate descending. *)
C9_ProjectsGrouped ==
    "projects" \in dist.written =>
        LET groups == dist.projects
            FirstMet(name) ==
                CHOOSE i \in 1..N :
                    /\ results[i].projectName = name
                    /\ \A j \in 1..(i - 1) : results[j].projectName # name
        IN /\ \A i \in 1..N :
                 Cardinality({<<g, k>> \in (1..Len(groups)) \X (1..N) :
                                /\ k <= Len(groups[g].articles)
                                /\ groups[g].articles[k].filePath
                                      = results[i].filePath})
                    = (IF results[i].isProject THEN 1 ELSE 0)
           /\ \A g \in 1..Len(groups) :
                 \A k \in 1..Len(groups[g].articles) :
                     groups[g].articles[k].projectName = groups[g].projectName
           /\ \A g, h \in 1..Len(groups) :
                 g < h => FirstMet(groups[g].projectName)
                             < FirstMet(groups[h].projectName)
           /\ \A g \in 1..Len(groups) :
                 \A k, l \in 1..Len(groups[g].articles) :
                     k < l => groups[g].articles[k].date
                                 >= groups[g].articles[l].date

-----------------------------------------------------------------------------
(* The Article constructor on its own: one construction per behaviour, the
   body or the path drawn from a bounded set. *)

(* the build stands still while a function is studied *)
BuildIdle ==
    /\ markdownFiles = <<>>
    /\ imagesDir = "unvisited"
    /\ task = <<>>
    /\ results = <<>>
    /\ currentArticleLanguages = {}
    /\ currentArticleForRenderer = Null
    /\ articles = <<>>
    /\ idx = 0
    /\ dist = EmptyDist
    /\ exitCode = -1
    /\ log = {}

RECURSIVE SeqsUpTo(_, _)
(* the sequences over alphabet of length at most n *)
SeqsUpTo(alphabet, n) ==
    IF n = 0 THEN {<<>>}
    ELSE LET shorter == SeqsUpTo(alphabet, n - 1)
         IN shorter \cup {Append(s, c) : s \in shorter, c \in alphabet}

(* a body of n one-letter words *)
RepeatWord(n) == [k \in 1..(2 * n) |-> IF k % 2 = 1 THEN "w" ELSE " "]

(* bodies: every short text of letters, blanks and line ends, and texts
   around one and two minutes of reading *)
Bodies ==
    SeqsUpTo({"w", " ", "\n"}, MaxBodyLen)
    \cup {RepeatWord(n) : n \in {WordsPerMinute - 1, WordsPerMinute,
                                 WordsPerMinute + 1, 2 * WordsPerMinute,
                                 2 * WordsPerMinute + 1}}

InitReadTime ==
    /\ BuildIdle
    /\ tz \in {-1, 0, 1}
    /\ clock = BuildDay * DayTicks
    /\ pc = "call"
    /\ arg \in Bodies
    /\ ret = Null

(* new Article(content, frontmatter, filePath) for the body arg *)
ConstructForBody ==
    /\ pc = "call"
    /\ ret' = NewArticle(Source(<<sYear, <<"a">> \o sDotMd>>, "fm", "map",
                                NoDate, arg, <<>>, <<>>), clock, tz)
    /\ pc' = "return"
    /\ UNCHANGED <<markdownFiles, imagesDir, tz, clock, task, results, currentArticleLanguages,
                   currentArticleForRenderer, articles, idx, dist, exitCode, log,
                   arg>>

NextReadTime == ConstructForBody

SpecReadTime == InitReadTime /\ [][NextReadTime]_vars

(* C4: readTimeMinutes is the least whole number of minutes that covers
   wordCount / 200, and it is at least 1 for every body, the empty and the
   blank ones included. *)
C4_ReadTimeCeilAtLeastOne ==
    pc = "return" =>
        LET wordCount == Cardinality({k \in 1..Len(arg) :
                            /\ arg[k] = "w"
                            /\ (k = Len(arg) \/ arg[k + 1] # "w")})
        IN /\ ret.readTime * WordsPerMinute >= wordCount
           /\ (ret.readTime - 1) * WordsPerMinute < wordCount
           /\ ret.readTime >= 1

-----------------------------------------------------------------------------
(* the directories a source file can lie in, below the content root, and
   the names it can bear *)
Directories == SeqsUpTo({sProjects, sDemo, sYear}, MaxSegments)

FileNames == {<<"a">> \o sDotMd, sDotMd, sProjects \o sDotMd}

InitUrl ==
    /\ BuildIdle
    /\ tz \in {-1, 0, 1}
    /\ clock \in (BuildDay * DayTicks)..(BuildDay * DayTicks + DayTicks - 1)
    /\ pc = "call"
    /\ arg \in [dir : Directories, name : FileNames,
                date : {NoDate, Iso(BuildDay), Euro(BuildDay),
                        Iso(BuildDay * DaysPerYear)}]
    /\ ret = Null

(* new Article(content, frontmatter, filePath) for the path and date arg *)
ConstructForPath ==
    /\ pc = "call"
    /\ ret' = NewArticle(Source(arg.dir \o <<arg.name>>, "fm", "map", arg.date,
                                <<"w">>, <<>>, <<>>), clock, tz)
    /\ pc' = "return"
    /\ UNCHANGED <<markdownFiles, imagesDir, tz, clock, task, results, currentArticleLanguages,
                   currentArticleForRenderer, articles, idx, dist, exitCode, log,
                   arg>>

NextUrl == ConstructForPath

SpecUrl == InitUrl /\ [][NextUrl]_vars

(* the segments of the path of arg, as the directory walk joined them *)
ArgSegments == <<sArticles>> \o arg.dir \o <<arg.name>>

(* the file name of arg without its .md extension; a name that is nothing
   but ".md" has no extension *)
ArgSlug ==
    IF Len(arg.name) > Len(sDotMd)
    THEN SubSeq(arg.name, 1, Len(arg.name) - Len(sDotMd))
    ELSE arg.name

(* C10: isProject holds iff a path segment is `projects`; projectName is
   then the segment that follows it and null otherwise; the url is
   /articles/projects/<projectName>/<slug> for a project article and
   /articles/<year of publishDate>/<slug> otherwise, slug being the file
   name without .md: a function of these four values alone. *)
C10_UrlDerivation ==
    pc = "return" =>
        LET parts == ArgSegments
            isProj == \E i \in 1..Len(parts) : parts[i] = sProjects
            first == CHOOSE i \in 1..Len(parts) :
                        /\ parts[i] = sProjects
                        /\ \A j \in 1..(i - 1) : parts[j] # sProjects
            year == <<ToString(GetFullYear(ret.date, tz))>>
        IN /\ ret.isProject = isProj
           /\ ret.projectName = (IF isProj THEN parts[first + 1] ELSE Null)
           /\ ret.url = (IF ret.isProject
                         THEN JoinWith(<<<<>>, sArticles, sProjects,
                                         ret.projectName, ArgSlug>>, Slash)
                         ELSE JoinWith(<<<<>>, sArticles, year, ArgSlug>>, Slash))

(* the scenario of the specification: a file under projects/demo, with a
   further directory below the project *)
C10_Witness ==
    /\ pc = "return"
    /\ arg.dir = <<sProjects, sDemo, sYear>>
    /\ ret.isProject
    /\ ret.projectName = sDemo
    /\ ret.url = JoinWith(<<<<>>, sArticles, sProjects, sDemo, <<"a">>>>, Slash)

-----------------------------------------------------------------------------
(* Images: the src the renderer writes, build.js:59-66, and the place the
   article loop copies the file to, build.js:405-413 *)

sDot == <<".">>
sDotDot == <<".", ".">>
sDotSlash == <<".", "/">>
sSlashSlash == <<"/", "/">>
sHttp == <<"h", "t", "t", "p", ":", "/", "/">>
sHttps == <<"h", "t", "t", "p", "s", ":", "/", "/">>

RECURSIVE NormalizeSegments(_, _, _)
(* path.normalize on the segments of a path: empty and "." segments go,
   ".." takes the segment before it, or goes itself at the root *)
NormalizeSegments(parts, out, isAbsolute) ==
    IF Len(parts) = 0 THEN out
    ELSE LET s == Head(parts)
             rest == Tail(parts)
         IN IF s = <<>> \/ s = sDot
            THEN NormalizeSegments(rest, out, isAbsolute)
            ELSE IF s = sDotDot
            THEN IF Len(out) > 0 /\ out[Len(out)] # sDotDot
                 THEN NormalizeSegments(rest, SubSeq(out, 1, Len(out) - 1),
                                        isAbsolute)
                 ELSE IF isAbsolute
                 THEN NormalizeSegments(rest, out, isAbsolute)
                 ELSE NormalizeSegments(rest, Append(out, s), isAbsolute)
            ELSE NormalizeSegments(rest, Append(out, s), isAbsolute)

(* path.join(a, b) for non-empty a and b: joined by a separator, then
   normalized; a trailing separator is kept *)
PathJoin(a, b) ==
    LET joined == a \o <<Slash>> \o b
        isAbsolute == Head(joined) = Slash
        segments == NormalizeSegments(Split(joined, Slash), <<>>, isAbsolute)
        trailing == joined[Len(joined)] = Slash /\ Len(segments) > 0
    IN (IF isAbsolute THEN <<Slash>> ELSE <<>>)
       \o JoinWith(segments, Slash)
       \o (IF trailing THEN <<Slash>> ELSE <<>>)

(* /^(https?:)?\/\//.test(href), build.js:60 *)
IsExternalHref(href) ==
    \/ StartsWith(href, sSlashSlash)
    \/ StartsWith(href, sHttp)
    \/ StartsWith(href, sHttps)

(* the lookahead (?!https?:\/\/) of imageRegex, build.js:140 *)
ImageRegexSkips(target) ==
    StartsWith(target, sHttp) \/ StartsWith(target, sHttps)

(* the targets imageRegex collects from a body whose images have the
   targets hrefs, in document order, build.js:140-144 *)
CollectImages(hrefs) == LET Kept(t) == ~ImageRegexSkips(t) IN SelectSeq(hrefs, Kept)

(* const imageName = href.startsWith('./') ? href.substring(2) : href *)
ImageName(href) ==
    IF StartsWith(href, sDotSlash) THEN SubSeq(href, 3, Len(href)) ELSE href

(* renderer.image, build.js:59-66: the src of the <img> tag.  current is
   the url of currentArticleForRenderer, or Null; the renderer of the
   library writes the href as it stands *)
RendererImage(current, href) ==
    IF current # Null /\ ~IsExternalHref(href)
    THEN PathJoin(current, ImageName(href))
    ELSE href

(* image targets as an author writes them: plain, with a leading ./, with
   a sub-directory, with both, through the parent, protocol-relative and
   with a scheme *)
ImageRefs ==
    { sPic,
      sDotSlash \o sPic,
      <<"i", "/">> \o sPic,
      sDotSlash \o <<"i", "/">> \o sPic,
      sDotDot \o <<Slash>> \o sPic,
      sSlashSlash \o <<"h", "/">> \o sPic,
      sHttp \o <<"h", "/">> \o sPic,
      sHttps \o <<"h", "/">> \o sPic }

InitImage ==
    /\ BuildIdle
    /\ tz \in {-1, 0, 1}
    /\ clock = BuildDay * DayTicks
    /\ pc = "call"
    /\ arg \in [dir : Directories, date : {Iso(BuildDay), NoDate}, href : ImageRefs]
    /\ ret = Null

(* one article whose body holds the one image arg.href: parseMarkdownFile
   collects its target, generateArticleHTML renders it with the article in
   flight, and the article loop copies every collected target *)
RenderAndCopyImage ==
    /\ pc = "call"
    /\ LET file == Source(arg.dir \o <<<<"a">> \o sDotMd>>, "fm", "map", arg.date,
                          <<"w">>, <<>>, CollectImages(<<arg.href>>))
           article == WithImages(NewArticle(file, clock, tz), file)
       IN ret' = [url |-> article.url,
                  src |-> RendererImage(article.url, arg.href),
                  dest |-> [k \in 1..Len(article.images) |->
                              DestImagePath(article, article.images[k])]]
    /\ pc' = "return"
    /\ UNCHANGED <<markdownFiles, imagesDir, tz, clock, task, results, currentArticleLanguages,
                   currentArticleForRenderer, articles, idx, dist, exitCode, log,
                   arg>>

NextImage == RenderAndCopyImage

SpecImage == InitImage /\ [][NextImage]_vars

(* the image reference of arg is relative to the article *)
ArgIsArticleRelative == ~IsExternalHref(arg.href)

(* C11: for every article-relative image reference, with or without a
   leading ./ and with or without sub-directories, the src of the <img>
   tag, taken under the output root, is the path the image file is copied
   to. *)
C11_ImageSrcIsCopyTarget ==
    (pc = "return" /\ ArgIsArticleRelative) =>
        /\ Len(ret.dest) = 1
        /\ Head(ret.src) = Slash
        /\ Tail(ret.src) = ret.dest[1]

-----------------------------------------------------------------------------
(* the outputs build() writes once each, build.js:417-444, but for the
   copy of the global image directory *)
RequiredOutputs == {"index", "projects", "search", "404"}

(* a directory could not be created or a file not written: the outer
   catch has reported it, build.js:448-451 *)
BuildFailed == <<"build", <<>>>> \in log

(* C12: success is reported only after every article page, the index page,
   the projects page, search-index.json and 404.html have been written;
   when creating a directory or writing one of these files fails, the
   build exits with a non-zero code and does not report success (the
   report of the failure stays in the log, so the last conjunct speaks of
   every later state too). *)
C12_SuccessOnlyAfterAllWrites ==
    /\ pc = "success" =>
          /\ \A i \in 1..N :
                \E page \in dist.pages : page.path = OutputPath(results[i])
          /\ RequiredOutputs \subseteq dist.written
    /\ exitCode = 0 <=> pc = "success"
    /\ BuildFailed => (pc = "exited" /\ exitCode = 1)

(* a build of a full file list has reported success *)
C12_Witness ==
    /\ pc = "success"
    /\ N = MaxFiles
    /\ Cardinality(dist.pages) = N

-----------------------------------------------------------------------------
(* a copy of an article image has failed *)
ImageCopyFailed == \E entry \in log : entry[1] = "image"

(* the error of the global image directory has been reported *)
GeneralImagesLogged == <<"images", <<>>>> \in log

(* C13: an article image that cannot be copied and a global image
   directory that is missing never abort the build: the build exits only
   when a file failed to parse or an output could not be written, and
   otherwise comes to rest only after it has written every page, the
   search index and the 404 page and reported success.  Every failed image
   copy is logged; a missing global image directory is not logged. *)
C13_ImageFailuresAreNotFatal ==
    /\ pc = "exited" => (BuildFailed \/ \E i \in 1..N : task[i] = "failed")
    /\ (~ENABLED Next /\ pc # "exited") =>
          (pc = "success" /\ RequiredOutputs \subseteq dist.written
                          /\ \A i \in 1..N : \E page \in dist.pages :
                                 page.path = OutputPath(results[i]))
    /\ \A i \in 1..(idx - 1) :
          \A k \in 1..Len(articles[i].images) :
              \/ DestImagePath(articles[i], articles[i].images[k]) \in dist.assets
              \/ <<"image", articles[i].images[k]>> \in log
    /\ imagesDir = "ENOENT" => ~GeneralImagesLogged
    /\ imagesDir = "EACCES" => GeneralImagesLogged

(* the build has reported success although an article image could not be
   copied and the global image directory is missing *)
C13_Witness ==
    /\ pc = "success"
    /\ ImageCopyFailed
    /\ imagesDir = "ENOENT"
    /\ N >= 2

-----------------------------------------------------------------------------
(* renderTemplate, build.js:186-190 *)

MaxPieces == 4         \* length of the templates enumerated, in pieces

(* the characters the class \w of a regular expression matches *)
WordChars ==
    {"a", "b", "c", "d", "e", "f", "g", "h", "i", "j", "k", "l", "m",
     "n", "o", "p", "q", "r", "s", "t", "u", "v", "w", "x", "y", "z",
     "A", "B", "C", "D", "E", "F", "G", "H", "I", "J", "K", "L", "M",
     "N", "O", "P", "Q", "R", "S", "T", "U", "V", "W", "X", "Y", "Z",
     "0", "1", "2", "3", "4", "5", "6", "7", "8", "9", "_"}

sOpen == <<"{", "{">>
sClose == <<"}", "}">>
sT == <<"t">>
sU == <<"u">>
sConstructor == <<"c", "o", "n", "s", "t", "r", "u", "c", "t", "o", "r">>

(* what an object literal inherits: Object.prototype.constructor is the
   function Object, and String(Object) is this text *)
ObjectPrototype ==
    [key \in {sConstructor} |-> <<"function Object() { [native code] }">>]

(* data[key]: an own property, else an inherited one, else undefined *)
GetProperty(data, key) ==
    IF key \in DOMAIN data THEN data[key]
    ELSE IF key \in DOMAIN ObjectPrototype THEN ObjectPrototype[key]
    ELSE Undefined

(* data[key] || '', build.js:188 *)
Replacement(data, key) ==
    IF Truthy(GetProperty(data, key)) THEN GetProperty(data, key) ELSE <<>>

(* the length of the match of /\{\{(\w+)\}\}/ at the start of s; 0 when
   there is none *)
TokenLength(s) ==
    IF ~StartsWith(s, sOpen) THEN 0
    ELSE LET keyEnd == CHOOSE j \in 3..(Len(s) + 1) :
                          /\ j = Len(s) + 1 \/ s[j] \notin WordChars
                          /\ \A k \in 3..(j - 1) : s[k] \in WordChars
         IN IF keyEnd > 3 /\ StartsWith(SubSeq(s, keyEnd, Len(s)), sClose)
            THEN keyEnd + 1
            ELSE 0

RECURSIVE RenderTemplate(_, _)
(* template.replace(/\{\{(\w+)\}\}/g, (match, key) => data[key] || ''):
   the matches are found from left to right in the template, and what
   replaces a match is not searched *)
RenderTemplate(template, data) ==
    IF Len(template) = 0 THEN <<>>
    ELSE LET n == TokenLength(template)
         IN IF n > 0
            THEN Replacement(data, SubSeq(template, 3, n - 2))
                 \o RenderTemplate(SubSeq(template, n + 1, Len(template)), data)
            ELSE <<Head(template)>> \o RenderTemplate(Tail(template), data)

RECURSIVE Concat(_)
(* the strings of a sequence, one after the other *)
Concat(strings) ==
    IF Len(strings) = 0 THEN <<>> ELSE Head(strings) \o Concat(Tail(strings))

(* the pieces templates are made of: delimiters, a lone brace, text, the
   keys t and constructor, and a whole token *)
TemplatePieces ==
    {sOpen, sClose, <<"{">>, <<"-">>, sT, sConstructor, sOpen \o sU \o sClose}

Templates == {Concat(pieces) : pieces \in SeqsUpTo(TemplatePieces, MaxPieces)}

(* data maps: nothing provided; a plain value; a value that holds a token
   and one that holds markup; an empty value *)
DataMaps ==
    { <<>>,
      [key \in {sT} |-> <<"v">>],
      [key \in {sT, sU} |-> IF key = sT THEN sOpen \o sU \o sClose ELSE <<"<">>],
      [key \in {sT, sU} |-> IF key = sT THEN <<>> ELSE <<"v">>] }

InitTemplate ==
    /\ BuildIdle
    /\ tz = 0
    /\ clock = BuildDay * DayTicks
    /\ pc = "call"
    /\ arg \in [template : Templates, data : DataMaps]
    /\ ret = Null

CallRenderTemplate ==
    /\ pc = "call"
    /\ ret' = RenderTemplate(arg.template, arg.data)
    /\ pc' = "return"
    /\ UNCHANGED <<markdownFiles, imagesDir, tz, clock, task, results, currentArticleLanguages,
                   currentArticleForRenderer, articles, idx, dist, exitCode, log,
                   arg>>

NextTemplate == CallRenderTemplate

SpecTemplate == InitTemplate /\ [][NextTemplate]_vars

(* the {{key}} tokens of a template: where each starts and ends *)
TokensOf(template) ==
    {<<i, j>> \in (1..Len(template)) \X (1..Len(template)) :
        /\ j - i >= 4
        /\ SubSeq(template, i, i + 1) = sOpen
        /\ SubSeq(template, j - 1, j) = sClose
        /\ \A k \in (i + 2)..(j - 2) : template[k] \in WordChars}

(* the template with every token replaced by the value provided for its
   key, or by nothing *)
Substituted(template, data) ==
    Concat([p \in 1..Len(template) |->
              IF \E t \in TokensOf(template) : t[1] = p
              THEN LET t == CHOOSE t \in TokensOf(template) : t[1] = p
                       key == SubSeq(template, t[1] + 2, t[2] - 2)
                   IN IF key \in DOMAIN data THEN data[key] ELSE <<>>
              ELSE IF \E t \in TokensOf(template) : t[1] < p /\ p <= t[2]
              THEN <<>>
              ELSE <<template[p]>>])

(* C14: renderTemplate replaces each {{key}} token of the template by
   data[key] when the key is provided and by the empty string otherwise;
   no token of the template is left, and the values are inserted as they
   are, neither searched for tokens nor escaped. *)
C14_TemplateSubstitution ==
    pc = "return" => ret = Substituted(arg.template, arg.data)

-----------------------------------------------------------------------------
(* A second build of the same source files on the same machine, started at
   the first instant of the build day: the articles it parses and what it
   writes, by the same functions. *)
ReferenceInstant == BuildDay * DayTicks

ReferenceArticles ==
    [i \in 1..N |->
        WithLanguages(WithImages(NewArticle(markdownFiles[i], ReferenceInstant, tz),
                                 markdownFiles[i]),
                      MarkedParse(ClearLanguages({}), markdownFiles[i].tokens))]

ReferenceOutput ==
    LET sorted == SortedArticles(ReferenceArticles)
    IN [pages |-> {[path |-> OutputPath(ReferenceArticles[i]),
                    of |-> ReferenceArticles[i].filePath] : i \in 1..N},
        index |-> IndexCards(sorted),
        projects |-> ProjectSections(sorted),
        search |-> GenerateSearchIndex(sorted)]

(* C15: two builds of identical inputs write identical output: the same
   article pages, index page, projects page and search-index.json as the
   build of the same files started at another instant. *)
C15_RebuildIsIdentical ==
    pc = "success" =>
        /\ dist.pages = ReferenceOutput.pages
        /\ dist.index = ReferenceOutput.index
        /\ dist.projects = ReferenceOutput.projects
        /\ dist.search = ReferenceOutput.search

-----------------------------------------------------------------------------
(* C16: after scanning, the languages of every article are the languages
   tagged on its code fences that are in the supported set: a fence with
   a supported tag adds its language, a fence with no tag or with an
   unsupported tag adds nothing, and no later step changes the set. *)
C16_LanguagesAreSupportedFenceTags ==
    Scanned =>
        \A k \in 1..Len(articles) :
            articles[k].languages =
                {lang \in FenceLanguages(SourceOf(articles[k])) :
                    lang \in SUPPORTED_LANGUAGES}

(* the scan is over for an article with a supported and an unsupported
   fence and for one with an untagged fence, parsed after it *)
C16_Witness ==
    /\ Scanned
    /\ \E k, l \in 1..Len(articles) :
          /\ "zz" \in FenceLanguages(SourceOf(articles[k]))
          /\ articles[k].languages = {"javascript"}
          /\ "" \in FenceLanguages(SourceOf(articles[l]))
          /\ articles[l].languages = {}
          /\ ScanPosition(articles[k]) < ScanPosition(articles[l])

-----------------------------------------------------------------------------
(* the records of search-index.json that stand for an article: those with
   its url *)
RecordsOf(article) ==
    {k \in 1..Len(dist.search) : dist.search[k].url = article.url}

(* the text is the ISO-8601 form of the instant t: its UTC day and its
   time within that day *)
IsIsoFormOf(text, t) ==
    \E d \in 0..t : \E k \in 0..(DayTicks - 1) :
        /\ d * DayTicks + k = t
        /\ text = <<ToString(d), "T", ToString(k), "Z">>

(* C17: search-index.json holds exactly one record for every published
   article and no other record; url, readTime, projectName, tags and
   languages of a record are those of its article, and its date is the
   ISO-8601 form of the article's publishDate. *)
C17_SearchIndexRecords ==
    "search" \in dist.written =>
        /\ \A i \in 1..N :
              Cardinality(RecordsOf(results[i]))
                 = (IF FutureDated(results[i].date) THEN 0 ELSE 1)
        /\ \A k \in 1..Len(dist.search) :
              \E i \in 1..N :
                  /\ dist.search[k].url = results[i].url
                  /\ dist.search[k].readTime = results[i].readTime
                  /\ dist.search[k].projectName = results[i].projectName
                  /\ dist.search[k].tags = results[i].tags
                  /\ dist.search[k].languages = results[i].languages
                  /\ IsIsoFormOf(dist.search[k].date, results[i].date)

-----------------------------------------------------------------------------
(* The excerpt on its own: bodies made of blocks of Markdown, so that
   every character of a body has one role: w is prose, c is the text of a
   fenced code block, a and u are the alternative text and the target of
   an image, b is the name of an HTML tag. *)

MaxBlocks == 3         \* number of blocks in an enumerated body

sProse == <<"w", " ", " ", "w", "\n">>
sBacktickFence == sFence \o <<"\n", "c", "\n">> \o sFence \o <<"\n">>
sTildeFence == <<"~", "~", "~", "\n", "c", "\n", "~", "~", "~", "\n">>
sImage == sBang \o <<"a">> \o sMid \o <<"u", ")">>
sHtml == <<"<", "b", ">", "w", "<", "/", "b", ">">>

ExcerptBlocks == {sProse, sBacktickFence, sTildeFence, sImage, sHtml}

(* prose longer than the excerpt may be *)
LongProse == RepeatWord(ExcerptLength \div 2 + 1)

ExcerptBodies ==
    {Concat(blocks) : blocks \in SeqsUpTo(ExcerptBlocks, MaxBlocks)}
    \cup {LongProse \o block : block \in ExcerptBlocks}
    \cup {block \o LongProse : block \in ExcerptBlocks}

InitExcerpt ==
    /\ BuildIdle
    /\ tz = 0
    /\ clock = BuildDay * DayTicks
    /\ pc = "call"
    /\ arg \in ExcerptBodies
    /\ ret = Null

(* generateSearchIndex for one article with the body arg *)
CallExcerpt ==
    /\ pc = "call"
    /\ ret' = SearchRecord(NewArticle(Source(<<sYear, <<"a">> \o sDotMd>>, "fm", "map",
                                             Iso(BuildDay), arg, <<>>, <<>>),
                                      clock, tz)).content
    /\ pc' = "return"
    /\ UNCHANGED <<markdownFiles, imagesDir, tz, clock, task, results,
                   currentArticleLanguages, currentArticleForRenderer, articles,
                   idx, dist, exitCode, log, arg>>

NextExcerpt == CallExcerpt

SpecExcerpt == InitExcerpt /\ [][NextExcerpt]_vars

(* C18: the content excerpt of a search record is at most 300 characters
   long, has no run of two or more whitespace characters, and holds no
   text of a fenced code block, no Markdown image syntax and no HTML tag
   of the body. *)
C18_ExcerptIsPlainAndShort ==
    pc = "return" =>
        /\ Len(ret) <= 300
        /\ \A k \in 1..(Len(ret) - 1) :
              ~(ret[k] \in Whitespace /\ ret[k + 1] \in Whitespace)
        /\ \A k \in 1..Len(ret) :
              /\ ret[k] # "c"
              /\ ret[k] \notin {"!", "[", "]", "(", ")", "a", "u"}
              /\ ret[k] \notin {"<", ">", "/", "b"}

-----------------------------------------------------------------------------
(* The machine-readable attributes of an index card, build.js:245-266 *)

MaxAttrLen == 2        \* length of the texts put into a card attribute

CardExcerptLength == 100   \* the argument of substring, build.js:257

UpperCase ==
    <<"A", "B", "C", "D", "E", "F", "G", "H", "I", "J", "K", "L", "M",
      "N", "O", "P", "Q", "R", "S", "T", "U", "V", "W", "X", "Y", "Z">>
LowerCase ==
    <<"a", "b", "c", "d", "e", "f", "g", "h", "i", "j", "k", "l", "m",
      "n", "o", "p", "q", "r", "s", "t", "u", "v", "w", "x", "y", "z">>

(* String.prototype.toLowerCase *)
ToLowerCase(s) ==
    [k \in 1..Len(s) |->
        IF \E i \in 1..Len(UpperCase) : UpperCase[i] = s[k]
        THEN LowerCase[CHOOSE i \in 1..Len(UpperCase) : UpperCase[i] = s[k]]
        ELSE s[k]]

(* a match of a pattern at the start of a text: how long it is (0 when
   there is none) and what replaces it *)
NoMatch == [n |-> 0, by |-> <<>>]

CardPatterns == <<"code", "heading", "bold", "italic", "link">>

(* the patterns of the chain of cleanContent, build.js:248-252, at the
   start of s:
     code     a backtick, [^backtick]*, a backtick      replaced by ''
     heading  /#{1,6}\s+/                               replaced by ''
     bold     /\*\*([^*]+)\*\*/                         replaced by $1
     italic   /\*([^*]+)\*/                             replaced by $1
     link     /\[([^\]]+)\]\([^)]+\)/                   replaced by $1  *)
CardPatternMatch(pattern, s) ==
    IF pattern = "code"
    THEN IF Len(s) > 0 /\ Head(s) = Backtick /\ Find(s, <<Backtick>>, 2, FALSE) # 0
         THEN [n |-> Find(s, <<Backtick>>, 2, FALSE), by |-> <<>>]
         ELSE NoMatch
    ELSE IF pattern = "heading"
    THEN LET hashes == Least({k \in 0..Len(s) : k = Len(s) \/ s[k + 1] # "#"})
             blanks == Least({k \in hashes..Len(s) :
                                k = Len(s) \/ s[k + 1] \notin Whitespace})
         IN IF hashes >= 1 /\ hashes <= 6 /\ blanks > hashes
            THEN [n |-> blanks, by |-> <<>>]
            ELSE NoMatch
    ELSE IF pattern = "bold"
    THEN LET star == Find(s, <<"*">>, 3, FALSE)
         IN IF StartsWith(s, <<"*", "*">>) /\ star > 3
               /\ StartsWith(SubSeq(s, star, Len(s)), <<"*", "*">>)
            THEN [n |-> star + 1, by |-> SubSeq(s, 3, star - 1)]
            ELSE NoMatch
    ELSE IF pattern = "italic"
    THEN LET star == Find(s, <<"*">>, 2, FALSE)
         IN IF StartsWith(s, <<"*">>) /\ star > 2
            THEN [n |-> star, by |-> SubSeq(s, 2, star - 1)]
            ELSE NoMatch
    ELSE LET close == Find(s, <<"]">>, 2, FALSE)
             paren == Find(s, <<")">>, close + 2, FALSE)
         IN IF StartsWith(s, <<"[">>) /\ close > 2
               /\ StartsWith(SubSeq(s, close, Len(s)), sMid)
               /\ paren > close + 2
            THEN [n |-> paren, by |-> SubSeq(s, 2, close - 1)]
            ELSE NoMatch

RECURSIVE ReplaceAll(_, _)
(* String.prototype.replace with a global pattern: the leftmost match is
   replaced, and the search goes on behind it *)
ReplaceAll(pattern, s) ==
    LET starts == {i \in 1..Len(s) :
                     CardPatternMatch(pattern, SubSeq(s, i, Len(s))).n > 0}
    IN IF starts = {} THEN s
       ELSE LET i == Least(starts)
                m == CardPatternMatch(pattern, SubSeq(s, i, Len(s)))
            IN SubSeq(s, 1, i - 1) \o m.by
               \o ReplaceAll(pattern, SubSeq(s, i + m.n, Len(s)))

(* .replace(/[>\-\*\+]/g, '') *)
RemoveMarkers(s) ==
    LET Stays(c) == c \notin {">", "-", "*", "+"} IN SelectSeq(s, Stays)

(* .replace(/\n+/g, ' '): of every run of line ends one blank stays *)
CollapseNewlines(s) ==
    LET marked == [k \in 1..Len(s) |->
                     [c |-> IF s[k] = "\n" THEN " " ELSE s[k],
                      drop |-> s[k] = "\n" /\ k > 1 /\ s[k - 1] = "\n"]]
        Kept(m) == ~m.drop
        kept == SelectSeq(marked, Kept)
    IN [k \in 1..Len(kept) |-> kept[k].c]

RECURSIVE ReplaceEach(_, _)
(* the replaces of the patterns, one after the other *)
ReplaceEach(patterns, s) ==
    IF Len(patterns) = 0 THEN s
    ELSE ReplaceEach(Tail(patterns), ReplaceAll(Head(patterns), s))

(* cleanContent, build.js:245-257 *)
CleanContent(content) ==
    Substring(Trim(CollapseWhitespace(CollapseNewlines(RemoveMarkers(
        ReplaceEach(CardPatterns, RemoveImages(RemoveFences(content))))))),
        CardExcerptLength)

sQuot == <<"&", "q", "u", "o", "t", ";">>

(* escapeAttr as generateIndexHTML had it before, src/index.ts:490-495 *)
EscapeAttrBefore(str) ==
    Concat([k \in 1..Len(str) |->
              IF str[k] = "&" THEN <<"&", "a", "m", "p", ";">>
              ELSE IF str[k] = "\"" THEN sQuot
              ELSE IF str[k] = "'" THEN <<"&", "#", "3", "9", ";">>
              ELSE IF str[k] = "<" THEN <<"&", "l", "t", ";">>
              ELSE IF str[k] = ">" THEN <<"&", "g", "t", ";">>
              ELSE <<str[k]>>])

(* const escapeAttr = (str) => str ? str.replace(/"/g, '&quot;') : '',
   build.js:259 *)
EscapeAttr(str) ==
    IF Truthy(str)
    THEN Concat([k \in 1..Len(str) |-> IF str[k] = "\"" THEN sQuot ELSE <<str[k]>>])
    ELSE <<>>

(* article.projectName || '' *)
ProjectOrEmpty(article) ==
    IF Truthy(article.projectName) THEN article.projectName ELSE <<>>

(* the four data- attributes of the card of an article, build.js:263-266 *)
CardAttributes(article) ==
    [title |-> EscapeAttr(ToLowerCase(article.title)),
     content |-> EscapeAttr(ToLowerCase(CleanContent(article.content))),
     project |-> EscapeAttr(ProjectOrEmpty(article)),
     tags |-> EscapeAttr(ToLowerCase(JoinWith(article.tags, " ")))]

(* the texts an author can put into a title, a body, a tag or the name of
   a project directory *)
AttrTexts == SeqsUpTo({"&", "\"", "'", "<", ">", "A", " "}, MaxAttrLen)

InitCard ==
    /\ BuildIdle
    /\ tz = 0
    /\ clock = BuildDay * DayTicks
    /\ pc = "call"
    /\ arg \in [text : AttrTexts, field : {"title", "content", "project", "tags"}]
    /\ ret = Null

(* the article whose field arg.field holds the text arg.text *)
ArticleWithText ==
    LET dir == IF arg.field = "project" THEN <<sProjects, arg.text>> ELSE <<sYear>>
        body == IF arg.field = "content" THEN arg.text ELSE <<"w">>
        meta == Meta(Present(IF arg.field = "title" THEN arg.text ELSE <<"T">>),
                     Absent,
                     IF arg.field = "tags"
                     THEN Present(<<arg.text, <<"x">>>>) ELSE Absent)
    IN NewArticle(WithMeta(Source(dir \o <<<<"a">> \o sDotMd>>, "fm", "map",
                                  Iso(BuildDay), body, <<>>, <<>>), meta),
                  clock, tz)

(* the card generateIndexHTML writes for that article *)
CallCardAttributes ==
    /\ pc = "call"
    /\ ret' = [article |-> ArticleWithText, card |-> CardAttributes(ArticleWithText)]
    /\ pc' = "return"
    /\ UNCHANGED <<markdownFiles, imagesDir, tz, clock, task, results,
                   currentArticleLanguages, currentArticleForRenderer, articles,
                   idx, dist, exitCode, log, arg>>

NextCard == CallCardAttributes

SpecCard == InitCard /\ [][NextCard]_vars

(* every character of the text with an entity is emitted as its entity *)
IsEscaped(emitted, text) ==
    emitted = Concat([k \in 1..Len(text) |->
                        CASE text[k] = "&" -> <<"&", "a", "m", "p", ";">>
                          [] text[k] = "\"" -> <<"&", "q", "u", "o", "t", ";">>
                          [] text[k] = "'" -> <<"&", "#", "3", "9", ";">>
                          [] text[k] = "<" -> <<"&", "l", "t", ";">>
                          [] text[k] = ">" -> <<"&", "g", "t", ";">>
                          [] OTHER -> <<text[k]>>])

(* C19: data-title, data-content, data-project and data-tags of an index
   card are HTML-attribute-escaped: every &, ", ', < and > of the title,
   the excerpt, the project name and the tags in lower case is emitted as
   its entity. *)
C19_CardAttributesEscaped ==
    pc = "return" =>
        /\ IsEscaped(ret.card.title, ToLowerCase(ret.article.title))
        /\ IsEscaped(ret.card.content,
                     ToLowerCase(CleanContent(ret.article.content)))
        /\ IsEscaped(ret.card.project, ProjectOrEmpty(ret.article))
        /\ IsEscaped(ret.card.tags, ToLowerCase(JoinWith(ret.article.tags, " ")))

-----------------------------------------------------------------------------
(* parseMarkdownFile on one file whose frontmatter block is well formed:
   the block holds a mapping with any of the known keys, or nothing at all
   (yaml.load of an empty block is undefined). *)
MetaFiles ==
    {WithMeta(Source(<<sYear, <<"a">> \o sDotMd>>, "fm", "map", date,
                     <<"w">>, <<>>, <<>>),
              Meta(title, description, tags)) :
        date \in {NoDate, Iso(BuildDay), Euro(BuildDay)},
        title \in {Absent, Present(<<"T">>)},
        description \in {Absent, Present(<<"D">>)},
        tags \in {Absent, Present(<<<<"x">>>>)}}
    \cup {Source(<<sYear, <<"a">> \o sDotMd>>, "fm", "empty", NoDate,
                 <<"w">>, <<>>, <<>>)}

InitMeta ==
    /\ BuildIdle
    /\ tz \in {-1, 0, 1}
    /\ clock \in (BuildDay * DayTicks)..(BuildDay * DayTicks + DayTicks - 1)
    /\ pc = "call"
    /\ arg \in MetaFiles
    /\ ret = Null

(* build.js:128-144 and 384-392: the article is constructed and returned,
   or the constructor throws and the catch of the callback exits *)
ParseOneFile ==
    /\ pc = "call"
    /\ IF FrontmatterFound(arg) /\ FrontmatterLoads(arg)
       THEN /\ ret' = WithImages(NewArticle(arg, clock, tz), arg)
            /\ pc' = "return"
            /\ UNCHANGED exitCode
       ELSE /\ Exit1
            /\ UNCHANGED ret
    /\ UNCHANGED <<markdownFiles, imagesDir, tz, clock, task, results,
                   currentArticleLanguages, currentArticleForRenderer, articles,
                   idx, dist, log, arg>>

NextMeta == ParseOneFile

SpecMeta == InitMeta /\ [][NextMeta]_vars

(* C20: for a file with a well-formed frontmatter block every known key
   that is absent takes its default (title Untitled, description empty,
   tags empty, publishDate the build time), and the absence of any or of
   all the keys, an empty metadata block included, does not make the
   build fail. *)
C20_AbsentKeysTakeDefaults ==
    pc # "call" =>
        /\ pc = "return"
        /\ exitCode # 1
        /\ arg.meta.title = Absent => ret.title = sUntitled
        /\ arg.meta.description = Absent => ret.description = <<>>
        /\ arg.meta.tags = Absent => ret.tags = <<>>
        /\ arg.date = NoDate => ret.date = clock

-----------------------------------------------------------------------------
(* The article page, build.js:192-227. The template files are read from
   src/templates at build time (build.js:174-184); the article template is
   taken here as any arrangement of the placeholders generateArticleHTML
   fills, and the layout as a frame around its content placeholder. *)

MaxSlots == 3

sTitleKey == <<"t", "i", "t", "l", "e">>
sContentKey == <<"c", "o", "n", "t", "e", "n", "t">>
sDateKey == <<"d", "a", "t", "e">>
sReadTimeKey == <<"r", "e", "a", "d", "T", "i", "m", "e">>
sProjectBadgeKey == <<"p", "r", "o", "j", "e", "c", "t", "B", "a", "d", "g", "e">>
sTagsBlockKey == <<"t", "a", "g", "s", "B", "l", "o", "c", "k">>
sDescriptionBlockKey ==
    <<"d", "e", "s", "c", "r", "i", "p", "t", "i", "o", "n", "B", "l", "o", "c", "k">>
sDescriptionKey == <<"d", "e", "s", "c", "r", "i", "p", "t", "i", "o", "n">>
sStylesKey == <<"s", "t", "y", "l", "e", "s">>

(* {{key}} *)
Placeholder(key) == sOpen \o key \o sClose

(* String(n).padStart(2, '0') *)
PadStart2(n) == IF n < 10 THEN <<"0", ToString(n)>> ELSE <<ToString(n)>>

(* Date.prototype.getDate and getMonth: the calendar here has one month of
   DaysPerYear days in a year *)
GetDate(t, z) == (LocalDay(t, z) % DaysPerYear) + 1
GetMonth(t, z) == 0

(* formatDateEuro, build.js:80-85: day, month and year of the local zone *)
FormatDateEuro(t, z) ==
    PadStart2(GetDate(t, z)) \o <<"-">> \o PadStart2(GetMonth(t, z) + 1)
        \o <<"-">> \o <<ToString(GetFullYear(t, z))>>

(* marked.parse(article.content) for a body of plain text: a paragraph *)
ParagraphHtml(content) == <<"<p>">> \o content \o <<"</p>\n">>

ProjectBadgeAlways(article) ==
    <<"<span class=\"project-badge\">">> \o article.projectName \o <<"</span>">>

(* build.js:199-201 *)
ProjectBadge(article) ==
    IF Truthy(article.projectName)
    THEN <<"<span class=\"project-badge\">">> \o article.projectName
             \o <<"</span>">>
    ELSE <<>>

(* build.js:203-205: article.tags.map(...).join('') in its container *)
TagsBlock(article) ==
    IF Len(article.tags) > 0
    THEN <<"<div class=\"tags-container\">">>
         \o Concat([k \in 1..Len(article.tags) |->
                       <<"<span class=\"tag-badge\">">> \o article.tags[k]
                           \o <<"</span>">>])
         \o <<"</div>">>
    ELSE <<>>

(* build.js:207-209 *)
DescriptionBlock(article) ==
    IF Truthy(article.description)
    THEN <<"<p class=\"article-description\">">> \o article.description
             \o <<"</p>">>
    ELSE <<>>

(* the object literal of build.js:211-219 *)
ArticleData(article, z) ==
    [key \in {sTitleKey, sContentKey, sDateKey, sReadTimeKey, sProjectBadgeKey,
              sTagsBlockKey, sDescriptionBlockKey} |->
        CASE key = sTitleKey -> article.title
          [] key = sContentKey -> ParagraphHtml(article.content)
          [] key = sDateKey -> FormatDateEuro(article.date, z)
          [] key = sReadTimeKey -> <<ToString(article.readTime), " min read">>
          [] key = sProjectBadgeKey -> ProjectBadge(article)
          [] key = sTagsBlockKey -> TagsBlock(article)
          [] OTHER -> DescriptionBlock(article)]

(* the object literal of build.js:221-226 *)
LayoutData(article, articleContent, styles) ==
    [key \in {sTitleKey, sDescriptionKey, sContentKey, sStylesKey} |->
        CASE key = sTitleKey -> article.title
          [] key = sDescriptionKey -> article.description
          [] key = sContentKey -> articleContent
          [] OTHER -> styles]

(* generateArticleHTML, build.js:192-227: the article template is filled,
   and what it gives is the content of the layout *)
GenerateArticleHTML(article, templates, styles, z) ==
    LET articleContent == RenderTemplate(templates.article, ArticleData(article, z))
    IN [projectBadge |-> ProjectBadge(article),
        tagsBlock |-> TagsBlock(article),
        descriptionBlock |-> DescriptionBlock(article),
        articleContent |-> articleContent,
        page |-> RenderTemplate(templates.layout,
                                LayoutData(article, articleContent, styles))]

(* what an article template is made of *)
ArticleSlots ==
    {Placeholder(sProjectBadgeKey), Placeholder(sTagsBlockKey),
     Placeholder(sDescriptionBlockKey), Placeholder(sTitleKey),
     Placeholder(sContentKey), <<"-">>}

ArticleTemplates == SeqsUpTo(ArticleSlots, MaxSlots)

Layout == <<"<main>">> \o Placeholder(sContentKey) \o <<"</main>">>

(* articles in and out of a project, with and without tags and description,
   one of them with the text of a placeholder in its body *)
PageFiles ==
    {WithMeta(Source(segments, "fm", "map", Iso(BuildDay), content, <<>>, <<>>),
              Meta(Present(<<"T">>), description, tags)) :
        segments \in {<<sYear, <<"a">> \o sDotMd>>,
                      <<sProjects, sDemo, <<"c">> \o sDotMd>>},
        content \in {<<"w">>, Placeholder(sTagsBlockKey)},
        description \in {Absent, Present(<<>>), Present(<<"D">>)},
        tags \in {Absent, Present(<<>>), Present(<<<<"x">>, <<"y">>>>)}}

InitPage ==
    /\ BuildIdle
    /\ tz = 0
    /\ clock = BuildDay * DayTicks
    /\ pc = "call"
    /\ arg \in [file : PageFiles, slots : ArticleTemplates]
    /\ ret = Null

CallGenerateArticleHTML ==
    /\ pc = "call"
    /\ ret' = GenerateArticleHTML(NewArticle(arg.file, clock, tz),
                                  [article |-> Concat(arg.slots), layout |-> Layout],
                                  <<"css">>, tz)
    /\ pc' = "return"
    /\ UNCHANGED <<markdownFiles, imagesDir, tz, clock, task, results, currentArticleLanguages,
                   currentArticleForRenderer, articles, idx, dist, exitCode, log,
                   arg>>

NextPage == CallGenerateArticleHTML

SpecPage == InitPage /\ [][NextPage]_vars

(* the article constructed from the file of the call *)
ArgArticle == NewArticle(arg.file, clock, tz)

(* a slot of the article template with its placeholder filled *)
FilledSlot(slot) ==
    CASE slot = Placeholder(sProjectBadgeKey) -> ret.projectBadge
      [] slot = Placeholder(sTagsBlockKey) -> ret.tagsBlock
      [] slot = Placeholder(sDescriptionBlockKey) -> ret.descriptionBlock
      [] slot = Placeholder(sTitleKey) -> ArgArticle.title
      [] slot = Placeholder(sContentKey) -> ParagraphHtml(ArgArticle.content)
      [] OTHER -> slot

(* C21: on every article page the project badge is empty for an article
   outside a project, the tag list is empty for an article without tags
   and the description block is empty for an article without description,
   and every placeholder of the article template is replaced by its value,
   so none of them remains in the page. *)
C21_EmptyBlocksLeaveNoPlaceholder ==
    pc = "return" =>
        /\ ~ArgArticle.isProject => ret.projectBadge = <<>>
        /\ Len(ArgArticle.tags) = 0 => ret.tagsBlock = <<>>
        /\ Len(ArgArticle.description) = 0 => ret.descriptionBlock = <<>>
        /\ ret.articleContent =
               Concat([k \in 1..Len(arg.slots) |-> FilledSlot(arg.slots[k])])
        /\ ret.page = <<"<main>">> \o ret.articleContent \o <<"</main>">>

C21_Witness ==
    /\ pc = "return"
    /\ ~ArgArticle.isProject
    /\ Len(ArgArticle.tags) = 0
    /\ Len(ArgArticle.description) = 0
    /\ arg.slots = <<Placeholder(sProjectBadgeKey), Placeholder(sTagsBlockKey),
                     Placeholder(sDescriptionBlockKey)>>
    /\ ret.page = <<"<main>", "</main>">>

-----------------------------------------------------------------------------
(* The build over content trees that hold two files of one name in
   different directories of a year, two files without a date, and a file
   whose date is no date. *)

Invalid == [kind |-> "invalid", day |-> 0]

sSub == <<"s">>

EdgeFiles ==
    { Source(<<sYear, <<"a">> \o sDotMd>>, "fm", "map", Iso(BuildDay),
             <<"w">>, <<>>, <<>>),
      Source(<<sYear, sSub, <<"a">> \o sDotMd>>, "fm", "map", Iso(BuildDay),
             <<"w", " ", "w">>, <<>>, <<>>),
      Source(<<sProjects, sDemo, <<"c">> \o sDotMd>>, "fm", "map", NoDate,
             <<"w">>, <<Code("go")>>, <<sPic>>),
      Source(<<sYear, <<"b">> \o sDotMd>>, "fm", "map", NoDate,
             <<"w">>, <<>>, <<>>),
      Source(<<sYear, <<"v">> \o sDotMd>>, "fm", "map", Invalid,
             <<"w">>, <<>>, <<>>) }

EdgeLists ==
    UNION { { s \in [1..n -> EdgeFiles] :
                \A i, j \in 1..n : i # j => s[i] # s[j] } : n \in 0..MaxFiles }

InitEdge ==
    /\ markdownFiles \in EdgeLists
    /\ imagesDir = "unvisited"
    /\ tz \in {-1, 0, 1}
    /\ clock \in (BuildDay * DayTicks)..(BuildDay * DayTicks + DayTicks - 1)
    /\ pc = "start"
    /\ task = [i \in 1..Len(markdownFiles) |-> "pending"]
    /\ results = [i \in 1..Len(markdownFiles) |-> Undefined]
    /\ currentArticleLanguages = {}
    /\ currentArticleForRenderer = Null
    /\ articles = <<>>
    /\ idx = 0
    /\ dist = EmptyDist
    /\ exitCode = -1
    /\ log = {}
    /\ arg = Null
    /\ ret = Null

SpecEdge == InitEdge /\ [][Next]_vars

(* the articles the index page, the projects page and the search index list *)
ListedArticles ==
    SeqToSet(dist.index)
    \cup UNION {SeqToSet(dist.projects[k].articles) : k \in 1..Len(dist.projects)}
    \cup {a \in SeqToSet(articles) :
            \E k \in 1..Len(dist.search) : dist.search[k].url = a.url}

(* C22: after a successful build every article listed on the index page,
   on the projects page or in the search index has its page at
   <output>/<url>/index.html, and that page is the rendering of that same
   article: no page is overwritten by the page of another article. *)
C22_ListedArticleHasItsOwnPage ==
    pc = "success" =>
        \A a \in ListedArticles :
            [path |-> OutputPath(a), of |-> a.filePath] \in dist.pages

(* some source file has a date that parses to no real date *)
HasInvalidDate ==
    \E i \in 1..Len(markdownFiles) : markdownFiles[i].date.kind = "invalid"

(* C23: every article of the article set has a valid date: a frontmatter
   date that parses to no real date makes the build abort during scanning,
   so that no article page and no other output file is ever written for
   such a tree. *)
C23_InvalidDateAbortsDuringScan ==
    /\ \A k \in 1..Len(articles) : articles[k].date # NaN
    /\ HasInvalidDate => dist = EmptyDist

(* what parseMarkdownFile returns for a file read at the instant now,
   build.js:125-155 *)
ScannedArticle(file, now) ==
    WithLanguages(WithImages(NewArticle(file, now, tz), file),
                  MarkedParse({}, file.tokens))

(* the article sets a scan gives when the reads complete in the order of
   the file list: the instants at which the files are constructed do not
   decrease along the list *)
InOrderScans ==
    {[i \in 1..N |-> ScannedArticle(markdownFiles[i], nows[i])] :
        nows \in {t \in [1..N -> (BuildDay * DayTicks)..LastInstant] :
                    \A i, j \in 1..N : i < j => t[i] <= t[j]}}

(* C24: the article set produced by scanning is in the order of the
   discovered file list whatever the order in which the reads and parses
   complete, and it is an article set that completion in list order
   produces too, so that the pages and the search index generated from it
   do not depend on the completion order. *)
C24_ScanIndependentOfCompletionOrder ==
    pc = "pages" /\ idx = 1 =>
        /\ Len(articles) = N
        /\ \A i \in 1..N : articles[i].filePath = markdownFiles[i].path
        /\ articles \in InOrderScans

-----------------------------------------------------------------------------
(* renderer.code and escapeHtml, build.js:22-57 and 68-78: the markup of a
   fenced code block.  A block is the token the parser hands to the hook:
   its language tag and its text. *)

MaxCodeLen == 2

sAmp == <<"&", "a", "m", "p", ";">>
sLt == <<"&", "l", "t", ";">>
sGt == <<"&", "g", "t", ";">>
sQuotEntity == <<"&", "q", "u", "o", "t", ";">>
sAposEntity == <<"&", "#", "3", "9", ";">>

(* str.replace(/c/g, entity) for a pattern of one character *)
ReplaceChar(str, c, entity) ==
    Concat([k \in 1..Len(str) |-> IF str[k] = c THEN entity ELSE <<str[k]>>])

EscapeHtmlAmpersandLast(str) ==
    ReplaceChar(ReplaceChar(ReplaceChar(ReplaceChar(ReplaceChar(
        str, "<", sLt), ">", sGt), "\"", sQuotEntity), "'", sAposEntity),
        "&", sAmp)

(* escapeHtml, build.js:71-77: five replacements, one after the other, the
   ampersand first *)
EscapeHtml(str) ==
    ReplaceChar(ReplaceChar(ReplaceChar(ReplaceChar(ReplaceChar(
        str, "&", sAmp), "<", sLt), ">", sGt), "\"", sQuotEntity),
        "'", sAposEntity)

(* escapeHtml(code), build.js:69: what is not a string is a token, and its
   text is escaped *)
EscapeHtmlOfToken(code) == EscapeHtml(code.text)

(* result.value of hljs.highlight, build.js:30: the text with its markup
   characters as entities and its keywords, here the letter k, in spans *)
HighlightValue(text) ==
    Concat([k \in 1..Len(text) |->
              IF text[k] = "k"
              THEN <<"<span class=\"hljs-keyword\">", "k", "</span>">>
              ELSE EscapeHtml(<<text[k]>>)])

FallbackBodyRaw(code) == code.text

(* const escapedCode = escapeHtml(code), build.js:46 *)
FallbackBody(code) == EscapeHtmlOfToken(code)

(* build.js:47-56: the markup when the block is not highlighted *)
FallbackBlock(code) ==
    [wrapper |-> "<div class=\"code-block-wrapper\">",
     dataLanguage |-> IF code.lang # "" THEN code.lang ELSE "text",
     codeClass |-> <<"language-", code.lang>>,
     body |-> FallbackBody(code),
     button |-> "<button class=\"code-copy-btn\" aria-label=\"Copy code\">",
     dataCode |-> EscapeHtmlOfToken(code)]

(* build.js:24-27: the language is set, is supported and is registered *)
IsHighlightable(code) ==
    code.lang # "" /\ code.lang \in SUPPORTED_LANGUAGES

(* renderer.code, build.js:22-57: highlightThrows says whether
   hljs.highlight throws for this block; the catch only warns, and the
   function goes on to the markup of a block that is not highlighted *)
RendererCodeHtml(code, highlightThrows) ==
    IF IsHighlightable(code) /\ ~highlightThrows
    THEN [wrapper |-> "<div class=\"code-block-wrapper\">",
          dataLanguage |-> code.lang,
          codeClass |-> <<"hljs language-", code.lang>>,
          body |-> HighlightValue(code.text),
          button |-> "<button class=\"code-copy-btn\" aria-label=\"Copy code\">",
          dataCode |-> EscapeHtmlOfToken(code)]
    ELSE FallbackBlock(code)

CodeChars == {"&", "<", ">", "\"", "'", "k", "a"}

CodeText(lang, text) == [type |-> "code", lang |-> lang, text |-> text]

(* an article body of two blocks: any block, then a block of markup
   characters without a language *)
CodeBodies ==
    {<<CodeText(lang, text), CodeText("", <<"<", "&">>)>> :
        lang \in {"", "go", "zz"}, text \in SeqsUpTo(CodeChars, MaxCodeLen)}

sPagePath == <<"a", Slash, "index.html">>

InitCode ==
    /\ BuildIdle
    /\ tz = 0
    /\ clock = BuildDay * DayTicks
    /\ pc = "call"
    /\ arg \in CodeBodies
    /\ ret = Null

(* marked.parse inside generateArticleHTML, build.js:195-197: the hook is
   called for every block, in document order *)
RenderBody ==
    /\ pc = "call"
    /\ \E throws \in [1..Len(arg) -> BOOLEAN] :
         /\ \A k \in 1..Len(arg) : throws[k] => IsHighlightable(arg[k])
         /\ ret' = [k \in 1..Len(arg) |-> RendererCodeHtml(arg[k], throws[k])]
         /\ log' = log \cup {<<"highlight", <<arg[k].lang>>>> :
                               k \in {j \in 1..Len(arg) : throws[j]}}
    /\ currentArticleLanguages' = MarkedParse(currentArticleLanguages, arg)
    /\ pc' = "rendered"
    /\ UNCHANGED <<markdownFiles, imagesDir, tz, clock, task, results,
                   currentArticleForRenderer, articles, idx, dist, exitCode, arg>>

(* writeFile(outputPath, articleHTML), build.js:402-403, and the outer catch
   of build.js:448-451 *)
WritePage ==
    /\ pc = "rendered"
    /\ \E ok \in BOOLEAN :
         IF ok
         THEN /\ dist' = [dist EXCEPT !.pages = {[path |-> sPagePath, of |-> ret]}]
              /\ pc' = "return"
              /\ UNCHANGED <<exitCode, log>>
         ELSE /\ Exit1
              /\ log' = log \cup {<<"build", <<>>>>}
              /\ UNCHANGED dist
    /\ UNCHANGED <<markdownFiles, imagesDir, tz, clock, task, results,
                   currentArticleLanguages, currentArticleForRenderer, articles,
                   idx, arg, ret>>

NextCode == RenderBody \/ WritePage

SpecCode == InitCode /\ [][NextCode]_vars

(* one character of source as it stands in an attribute or in element text *)
Entity(c) ==
    CASE c = "&" -> sAmp
      [] c = "<" -> sLt
      [] c = ">" -> sGt
      [] c = "\"" -> sQuotEntity
      [] c = "'" -> sAposEntity
      [] OTHER -> <<c>>

(* the text with every markup character replaced by its entity, once *)
EscapedOnce(text) == Concat([k \in 1..Len(text) |-> Entity(text[k])])

(* highlighting failed on block k of the body *)
HighlightFailed(k) ==
    /\ IsHighlightable(arg[k])
    /\ <<"highlight", <<arg[k].lang>>>> \in log

(* C25: a highlighting failure on a block whose language is recognized
   does not abort the build: the block is emitted escaped and without
   highlighting, in the wrapper and with the copy button of every block,
   the blocks after it are rendered, and the page with all the blocks is
   written unless the write itself fails. *)
C25_HighlightFailureFallsBack ==
    pc # "call" =>
        /\ Len(ret) = Len(arg)
        /\ \A k \in 1..Len(arg) :
             HighlightFailed(k) =>
                /\ ret[k].body = EscapedOnce(arg[k].text)
                /\ ret[k].dataCode = EscapedOnce(arg[k].text)
                /\ ret[k].dataLanguage = arg[k].lang
                /\ ret[k].wrapper = ret[Len(arg)].wrapper
                /\ ret[k].button = ret[Len(arg)].button
        /\ pc = "rendered" => exitCode # 1
        /\ pc = "exited" => <<"build", <<>>>> \in log
        /\ pc = "return" => dist.pages = {[path |-> sPagePath, of |-> ret]}

C25_Witness ==
    /\ pc = "return"
    /\ HighlightFailed(1)
    /\ arg[1].text = <<"<", "k">>
    /\ ret[1].body = sLt \o <<"k">>
    /\ ret[2].body = sLt \o sAmp
    /\ dist.pages # {}

(* C26: every fenced code block, highlighted or not, is emitted in the
   same wrapper with a copy button whose data-code attribute holds the
   source with each of the five markup characters replaced by its entity
   exactly once; a block whose language is absent or unsupported has its
   body emitted with the same escaping and without highlighting spans. *)
C26_CodeBlocksEscapedOnce ==
    pc # "call" =>
        \A k \in 1..Len(arg) :
            /\ ret[k].wrapper = "<div class=\"code-block-wrapper\">"
            /\ ret[k].button =
                   "<button class=\"code-copy-btn\" aria-label=\"Copy code\">"
            /\ ret[k].dataCode = EscapedOnce(arg[k].text)
            /\ ~IsHighlightable(arg[k]) => ret[k].body = EscapedOnce(arg[k].text)

C26_Witness ==
    /\ pc = "return"
    /\ arg[1].lang = "go"
    /\ ~HighlightFailed(1)
    /\ arg[1].text = <<"&", "k">>
    /\ ret[1].dataCode = sAmp \o <<"k">>
    /\ ret[1].body # ret[1].dataCode
    /\ arg[2].lang = ""
    /\ ret[2].body = sLt \o sAmp

(* C27: the image targets recorded for copying are exactly the targets the
   renderer treats as relative to the article and rewrites: a target is
   recorded if and only if the src of its <img> tag is rewritten, and an
   absolute URL passes through unchanged and is not recorded or copied. *)
C27_RecordedIffRewritten ==
    pc = "return" =>
        /\ Len(ret.dest) = 1 <=> ret.src # arg.href
        /\ IsExternalHref(arg.href) => ret.src = arg.href /\ ret.dest = <<>>

-----------------------------------------------------------------------------
(* The date of an article as it is written, shown and used in the url,
   build.js:94-100, 80-85 and 112-118. *)

MaxDay == 10

(* the calendar day d as an author writes it, day-month-year *)
WrittenDayMonthYear(d) ==
    PadStart2((d % DaysPerYear) + 1) \o <<"-">> \o <<"0", "1">> \o <<"-">>
        \o <<ToString(d \div DaysPerYear)>>

InitDate ==
    /\ BuildIdle
    /\ tz \in {-1, 0, 1}
    /\ clock = BuildDay * DayTicks
    /\ pc = "call"
    /\ arg \in {Iso(d) : d \in 1..MaxDay} \cup {Euro(d) : d \in 1..MaxDay}
    /\ ret = Null

(* the article of a file dated arg: the text generateArticleHTML and
   generateIndexHTML show for its date (build.js:193, 233) and its url *)
ConstructForDate ==
    /\ pc = "call"
    /\ LET file == Source(<<sYear, <<"a">> \o sDotMd>>, "fm", "map", arg,
                          <<"w">>, <<>>, <<>>)
           article == NewArticle(file, clock, tz)
       IN ret' = [shown |-> FormatDateEuro(article.date, tz), url |-> article.url]
    /\ pc' = "return"
    /\ UNCHANGED <<markdownFiles, imagesDir, tz, clock, task, results, currentArticleLanguages,
                   currentArticleForRenderer, articles, idx, dist, exitCode, log,
                   arg>>

NextDate == ConstructForDate

SpecDate == InitDate /\ [][NextDate]_vars

(* C28: for a date written as DD-MM-YYYY and for a date written as ISO
   YYYY-MM-DD alike, the date shown on the article page and the index card
   is the day-month-year form of that same calendar day, and the year in
   the url of the article is the year of that day. *)
C28_ShownDateIsWrittenDate ==
    pc = "return" =>
        /\ ret.shown = WrittenDayMonthYear(arg.day)
        /\ ret.url = <<Slash>> \o sArticles \o <<Slash>>
                        \o <<ToString(arg.day \div DaysPerYear)>>
                        \o <<Slash, "a">>

-----------------------------------------------------------------------------
(* frontmatterRegex, build.js:128-136, on the characters of a file: the
   rule --- at the start, white space and a newline, a lazy group, a
   newline and the rule, white space and a newline, and a group for the
   rest; the dot matches newlines too *)

MaxLines == 5

sRule == <<"-", "-", "-">>

(* where the newline after a run of white space that starts at from can
   stand: everything before it, from from on, is white space *)
NewlineAfterSpace(s, from) ==
    {p \in from..Len(s) :
        /\ s[p] = "\n"
        /\ \A k \in from..(p - 1) : s[k] \in Whitespace}

(* the greatest element of a non-empty set of numbers *)
Greatest(S) == CHOOSE x \in S : \A y \in S : x >= y

(* the ends e of a lazy group that starts at c for which a newline, the
   rule, white space and a newline follow *)
BlockEnds(s, c) ==
    {e \in (c - 1)..Len(s) :
        /\ e + 4 <= Len(s)
        /\ s[e + 1] = "\n"
        /\ SubSeq(s, e + 2, e + 4) = sRule
        /\ NewlineAfterSpace(s, e + 5) # {}}

NoFrontmatter == [matched |-> FALSE, frontmatter |-> <<>>, body |-> <<>>]

(* content.match(frontmatterRegex): the white space after the first rule
   is matched greedily and gives back what it must, the first group is
   lazy, the white space after the second rule is greedy, and the last
   group takes the rest *)
FrontmatterMatch(content) ==
    IF ~StartsWith(content, sRule) THEN NoFrontmatter
    ELSE LET opens == {p \in NewlineAfterSpace(content, 4) :
                          BlockEnds(content, p + 1) # {}}
         IN IF opens = {} THEN NoFrontmatter
            ELSE LET open == Greatest(opens)
                     end == Least(BlockEnds(content, open + 1))
                     close == Greatest(NewlineAfterSpace(content, end + 5))
                 IN [matched |-> TRUE,
                     frontmatter |-> SubSeq(content, open + 1, end),
                     body |-> SubSeq(content, close + 1, Len(content))]

(* the lines files are made of: the rule, an empty line, a line of
   metadata or of prose, an indented line *)
FileLines == {sRule, <<>>, <<"t">>, <<" ", "t">>}

(* files of up to MaxLines lines, each line ended by a newline *)
FileTexts ==
    {Concat([k \in 1..Len(lines) |-> lines[k] \o <<"\n">>]) :
        lines \in SeqsUpTo(FileLines, MaxLines)}

InitFrontmatter ==
    /\ BuildIdle
    /\ tz = 0
    /\ clock = BuildDay * DayTicks
    /\ pc = "call"
    /\ arg \in FileTexts
    /\ ret = Null

(* build.js:128-136: the match, or the throw that the catch of the
   callback turns into process.exit(1), build.js:389-391 *)
MatchFrontmatter ==
    /\ pc = "call"
    /\ ret' = FrontmatterMatch(arg)
    /\ IF ret'.matched
       THEN /\ pc' = "return"
            /\ UNCHANGED <<exitCode, log>>
       ELSE /\ Exit1
            /\ log' = log \cup {<<"parse", <<>>>>}
    /\ UNCHANGED <<markdownFiles, imagesDir, tz, clock, task, results, currentArticleLanguages,
                   currentArticleForRenderer, articles, idx, dist, arg>>

NextFrontmatter == MatchFrontmatter

SpecFrontmatter == InitFrontmatter /\ [][NextFrontmatter]_vars

(* the lines of the file of the call, without the empty piece behind its
   last newline *)
ArgLines == LET parts == Split(arg, "\n") IN SubSeq(parts, 1, Len(parts) - 1)

(* the file begins with a rule and a later line is a rule *)
HasFrontmatterBlock ==
    /\ Len(ArgLines) >= 2
    /\ ArgLines[1] = sRule
    /\ \E j \in 2..Len(ArgLines) : ArgLines[j] = sRule

(* the first later line that is a rule *)
ClosingLine == Least({j \in 2..Len(ArgLines) : ArgLines[j] = sRule})

(* lines from to to of the file as text, every line with its newline *)
LinesText(from, to) ==
    Concat([k \in 1..(to - from + 1) |-> ArgLines[from + k - 1] \o <<"\n">>])

(* C29: for a file that begins with a --- line the metadata block is the
   text up to the first later line consisting of ---, and rawBody is all
   the text after that closing line, unchanged: later --- lines of the
   body stay in rawBody and no line of the block appears in it. *)
C29_FrontmatterSplitsAtFirstRule ==
    pc # "call" /\ HasFrontmatterBlock =>
        /\ ret.matched
        /\ ret.frontmatter \o <<"\n">> = LinesText(2, ClosingLine - 1)
               \/ (ClosingLine = 2 /\ ret.frontmatter = <<>>)
        /\ ret.body = LinesText(ClosingLine + 1, Len(ArgLines))

-----------------------------------------------------------------------------
(* findMarkdownFiles, build.js:157-172, over content trees.  A directory is
   the list of its entries as readdir gives them; an entry has a name, is a
   directory or not, and a directory has entries of its own.  The state of
   the walk is the array files and the activations of the function, the
   innermost last, each with its directory and the entries still to visit. *)

MaxEntries == 3

File(name) == [name |-> name, kind |-> "file", children |-> <<>>]
Dir(name, children) == [name |-> name, kind |-> "dir", children |-> children]

sTxt == <<"n", ".", "t", "x", "t">>

(* entries of the content root: files with and without the suffix, a
   directory with a directory inside whose own name has the suffix, a
   directory with the suffix, an empty directory *)
RootEntries ==
    { File(<<"a">> \o sDotMd),
      File(sTxt),
      Dir(<<"s">>, <<File(<<"b">> \o sDotMd),
                     Dir(<<"t">> \o sDotMd, <<File(<<"c">> \o sDotMd), File(sTxt)>>),
                     File(sDotMd)>>),
      Dir(<<"u">> \o sDotMd, <<File(<<"d">> \o sDotMd)>>),
      Dir(<<"e">>, <<>>) }

ContentTrees ==
    UNION { { s \in [1..n -> RootEntries] :
                \A i, j \in 1..n : i # j => s[i] # s[j] } : n \in 0..MaxEntries }

StatIsDirectoryUnlessMd(entry) ==
    entry.kind = "dir" /\ ~EndsWith(entry.name, sDotMd)

(* stats.isDirectory(), build.js:164 *)
StatIsDirectory(entry) == entry.kind = "dir"

InitWalk ==
    /\ BuildIdle
    /\ tz = 0
    /\ clock = BuildDay * DayTicks
    /\ pc = "call"
    /\ arg \in ContentTrees
    /\ ret = Null

(* findMarkdownFiles(ARTICLES_DIR), build.js:380 and 157-158: files is
   empty and the entries of the root are read *)
CallFindMarkdownFiles ==
    /\ pc = "call"
    /\ ret' = [files |-> <<>>,
               frames |-> <<[dir |-> sArticles, entries |-> arg]>>]
    /\ pc' = "walk"
    /\ UNCHANGED <<markdownFiles, imagesDir, tz, clock, task, results, currentArticleLanguages,
                   currentArticleForRenderer, articles, idx, dist, exitCode, log,
                   arg>>

(* one turn of the loop, build.js:160-169: a directory is entered, its
   entries read; a file with the suffix is pushed; anything else is passed *)
VisitEntry ==
    /\ pc = "walk"
    /\ LET top == ret.frames[Len(ret.frames)]
       IN /\ Len(top.entries) > 0
          /\ LET entry == Head(top.entries)
                 fullPath == PathJoin(top.dir, entry.name)
                 rest == [ret.frames EXCEPT ![Len(ret.frames)].entries = Tail(@)]
             IN ret' = IF StatIsDirectory(entry)
                       THEN [ret EXCEPT !.frames =
                               Append(rest, [dir |-> fullPath,
                                             entries |-> entry.children])]
                       ELSE IF EndsWith(entry.name, sDotMd)
                       THEN [files |-> Append(ret.files, fullPath), frames |-> rest]
                       ELSE [ret EXCEPT !.frames = rest]
    /\ UNCHANGED <<markdownFiles, imagesDir, tz, clock, pc, task, results,
                   currentArticleLanguages, currentArticleForRenderer, articles,
                   idx, dist, exitCode, log, arg>>

(* return files, build.js:171: the loop of an activation is over; the
   outermost one hands files to build() *)
ReturnFiles ==
    /\ pc = "walk"
    /\ Len(ret.frames[Len(ret.frames)].entries) = 0
    /\ ret' = [ret EXCEPT !.frames = SubSeq(@, 1, Len(@) - 1)]
    /\ pc' = IF Len(ret.frames) = 1 THEN "return" ELSE "walk"
    /\ UNCHANGED <<markdownFiles, imagesDir, tz, clock, task, results, currentArticleLanguages,
                   currentArticleForRenderer, articles, idx, dist, exitCode, log,
                   arg>>

NextWalk == CallFindMarkdownFiles \/ VisitEntry \/ ReturnFiles

(* every await of the walk settles: the walk is not left waiting *)
SpecWalk == InitWalk /\ [][NextWalk]_vars /\ WF_vars(NextWalk)

RECURSIVE DepthFirst(_, _)
(* the paths of the entries under dir that are no directories and whose
   names have the suffix, every directory listed through where it stands
   among its siblings *)
DepthFirst(dir, entries) ==
    IF Len(entries) = 0 THEN <<>>
    ELSE LET entry == Head(entries)
             path == dir \o <<Slash>> \o entry.name
         IN (IF entry.kind = "dir" THEN DepthFirst(path, entry.children)
             ELSE IF EndsWith(entry.name, sDotMd) THEN <<path>>
             ELSE <<>>)
            \o DepthFirst(dir, Tail(entries))

(* the walk has returned what the tree holds: every such entry once,
   nothing else, in depth-first order *)
WalkResultIsExact ==
    pc = "return" =>
        /\ ret.frames = <<>>
        /\ ret.files = DepthFirst(sArticles, arg)
        /\ Cardinality(SeqToSet(ret.files)) = Len(ret.files)

(* C30: for every finite content tree findMarkdownFiles terminates, and
   what it returns is every entry under the root that is no directory and
   whose name ends in .md, exactly once and nothing else, every directory
   traversed depth-first, a directory whose own name ends in .md too. *)
C30_WalkTerminatesWithEveryMarkdownFile ==
    /\ []WalkResultIsExact
    /\ <>(pc = "return")

C30_Witness ==
    /\ pc = "return"
    /\ Len(arg) = MaxEntries
    /\ \E k \in 1..Len(arg) : arg[k].kind = "dir" /\ EndsWith(arg[k].name, sDotMd)
    /\ \E k \in 1..Len(ret.files) :
         ret.files[k] = sArticles \o <<Slash, "s", Slash, "t">> \o sDotMd
                           \o <<Slash, "c">> \o sDotMd

====
